---- MODULE Spec2Model ----
(***************************************************************************)
(* Orchestrator abstraction and validation layer of crewai-runner:         *)
(* the two framework adapters (CrewAIAdapter, LangGraphAdapter) with their *)
(* validate / execute / get_status / stop methods and the                  *)
(* OrchestratorFactory registry.                                           *)
(*                                                                         *)
(* Python values are modelled as tagged records: t is the Python type.     *)
(* Error messages are records holding the parts the f-strings are built    *)
(* from; item positions are the 0-based indices enumerate() yields.        *)
(***************************************************************************)
EXTENDS Integers, Sequences, FiniteSets, TLC

VARIABLES registry, stores, issued, call, streams, workflows_db, frames

vars == <<registry, stores, issued, call, streams, workflows_db, frames>>

---------------------------------------------------------------------------
(* Bounds of the model *)

\* total number of items of the two collections of a definition; a
\* collection that is absent or not a list counts as one item
MaxItems == 3

\* number of run ids execute can issue in the lifecycle model
MaxRuns == 2

\* number of generators stream is called for
MaxStreams == 2

---------------------------------------------------------------------------
(* Python values *)

NoneV == [t |-> "none"]

NumV == [t |-> "num"]

StrV(s) == [t |-> "str", s |-> s]

ListV(l) == [t |-> "list", l |-> l]

DictV(d) == [t |-> "dict", d |-> d]

EmptyDict == DictV([k \in {} |-> NoneV])

\* isinstance(v, list) / isinstance(v, dict)
IsList(v) == v.t = "list"

IsDict(v) == v.t = "dict"

\* needle in hay, for two str: every str of the model that is searched is
\* either one character long or is itself one of the searched keys, and no
\* key is a substring of another, so containment is equality
IsSubstring(needle, hay) == needle = hay

\* `key in v` raises TypeError when v is None or a number
InRaises(v) == v.t \in {"none", "num"}

\* `key in v` for a dict (key lookup), a str (substring) or a list (element)
KeyIn(key, v) ==
  CASE v.t = "dict" -> key \in DOMAIN v.d
    [] v.t = "str" -> IsSubstring(key, v.s)
    [] v.t = "list" -> \E i \in 1..Len(v.l) : v.l[i] = StrV(key)
    [] OTHER -> FALSE

\* v[key] with a str key raises TypeError unless v is a dict
GetItemRaises(v) == v.t # "dict"

\* `for a in v` raises TypeError when v is None or a number
IterRaises(v) == v.t \in {"none", "num"}

\* the elements `for a in v` yields: the items of a list, the keys of a dict,
\* the characters of a str (the model iterates one-character strs only)
IterItems(v) ==
  CASE v.t = "list" -> v.l
    [] v.t = "dict" -> LET ks == DOMAIN v.d
                           RECURSIVE Keys(_)
                           Keys(S) == IF S = {} THEN <<>>
                                      ELSE LET k == CHOOSE x \in S : TRUE
                                           IN <<StrV(k)>> \o Keys(S \ {k})
                       IN Keys(ks)
    [] v.t = "str" -> <<StrV(v.s)>>
    [] OTHER -> <<>>

\* x in lst, for a Python list given as a sequence (== on each element)
InList(x, lst) == \E i \in 1..Len(lst) : lst[i] = x

RECURSIVE Flatten(_)
\* concatenation of a sequence of sequences (errors.append in loop order)
Flatten(ss) == IF ss = <<>> THEN <<>> ELSE Head(ss) \o Flatten(Tail(ss))

---------------------------------------------------------------------------
(* Results of validate *)

\* validate returned the tuple (valid, errors)
Ret(valid, errors) == [kind |-> "ret", valid |-> valid, errors |-> errors]

\* validate raised instead of returning
Raised == [kind |-> "raise", exc |-> "TypeError"]

\* mutant: `return len(errors) == 0, errors` (the empty list instead of None)
FinalResultKeepsList(errors) == Ret(Len(errors) = 0, ListV(errors))

\* return len(errors) == 0, errors if errors else None
FinalResult(errors) ==
  Ret(Len(errors) = 0, IF Len(errors) > 0 THEN ListV(errors) ELSE NoneV)

\* errors.append("Missing 'workflow' field"); return False, errors
MissingWorkflowResult == Ret(FALSE, ListV(<<[msg |-> "MissingWorkflow"]>>))

\* "Missing '<key>' field in workflow"
EMissing(key) == [msg |-> "Missing", key |-> key]

\* "'<key>' must be a list"
ENotList(key) == [msg |-> "NotList", key |-> key]

\* "At least one agent/task/node is required"
EEmpty(key) == [msg |-> "Empty", key |-> key]

\* "<Kind> <i> must be a dictionary"
ENotDict(kind, i) == [msg |-> "ItemNotDict", kind |-> kind, i |-> i]

\* "<Kind> <i> missing required field: <field>"
EField(kind, i, field) ==
  [msg |-> "ItemMissingField", kind |-> kind, i |-> i, field |-> field]

\* "Task <i> references unknown agent: <val>" and
\* "Edge <i> references unknown source/target node: <val>"
ERef(kind, i, role, val) ==
  [msg |-> "UnknownRef", kind |-> kind, i |-> i, role |-> role, val |-> val]

---------------------------------------------------------------------------
(* Steps shared by the two validate methods *)

\* the if / elif / elif chain on one top-level collection: raises, or yields
\* the errors it appends
TopCheckRaises(workflow, key) ==
  \/ InRaises(workflow)
  \/ KeyIn(key, workflow) /\ GetItemRaises(workflow)

\* mutant: the non-empty rule applied to every collection, edges included
TopCheckAlwaysNonEmpty(workflow, key, nonEmpty) ==
  IF ~KeyIn(key, workflow) THEN <<EMissing(key)>>
  ELSE IF ~IsList(workflow.d[key]) THEN <<ENotList(key)>>
  ELSE IF Len(workflow.d[key].l) = 0 THEN <<EEmpty(key)>>
  ELSE <<>>

TopCheck(workflow, key, nonEmpty) ==
  IF ~KeyIn(key, workflow) THEN <<EMissing(key)>>
  ELSE IF ~IsList(workflow.d[key]) THEN <<ENotList(key)>>
  ELSE IF nonEmpty /\ Len(workflow.d[key].l) = 0 THEN <<EEmpty(key)>>
  ELSE <<>>

\* `"<key>" in workflow and isinstance(workflow["<key>"], list)`
HasList(workflow, key) ==
  KeyIn(key, workflow) /\ IsList(workflow.d[key])

\* the inner loop `for field in required: if field not in item: append`
FieldErrors(kind, i, item, required) ==
  LET miss == SelectSeq(required, LAMBDA f : f \notin DOMAIN item.d)
  IN [j \in 1..Len(miss) |-> EField(kind, i, miss[j])]

\* workflow.get(key, [])
GetOrEmptyList(workflow, key) ==
  IF key \in DOMAIN workflow.d THEN workflow.d[key] ELSE ListV(<<>>)

\* [x.get(field) for x in coll if isinstance(x, dict)]
Names(coll, field) ==
  LET ds == SelectSeq(IterItems(coll), IsDict)
  IN [j \in 1..Len(ds) |->
        IF field \in DOMAIN ds[j].d THEN ds[j].d[field] ELSE NoneV]

---------------------------------------------------------------------------
(* CrewAIAdapter.validate *)

RequiredAgentFields == <<"name", "role", "goal", "backstory", "model">>

RequiredTaskFields == <<"name", "description", "expectedOutput", "agent">>

\* the body of `for i, agent in enumerate(workflow["agents"])`
CrewAgentErrors(i, agent) ==
  IF ~IsDict(agent) THEN <<ENotDict("Agent", i)>>
  ELSE FieldErrors("Agent", i, agent, RequiredAgentFields)

\* `"agent" in task and task["agent"] not in agent_names`
CrewUnknownAgent(task, agent_names) ==
  "agent" \in DOMAIN task.d /\ ~InList(task.d["agent"], agent_names)

\* mutant: the agent reference of a task is checked before its fields
CrewTaskErrorsRefFirst(i, task, agent_names) ==
  IF ~IsDict(task) THEN <<ENotDict("Task", i)>>
  ELSE (IF CrewUnknownAgent(task, agent_names)
        THEN <<ERef("Task", i, "agent", task.d["agent"])>> ELSE <<>>)
       \o FieldErrors("Task", i, task, RequiredTaskFields)

\* the body of `for i, task in enumerate(workflow["tasks"])`
CrewTaskErrors(i, task, agent_names) ==
  IF ~IsDict(task) THEN <<ENotDict("Task", i)>>
  ELSE FieldErrors("Task", i, task, RequiredTaskFields)
       \o (IF CrewUnknownAgent(task, agent_names)
           THEN <<ERef("Task", i, "agent", task.d["agent"])>> ELSE <<>>)

\* the statements after the `agents` chain (lines 71-115), e1 being the
\* errors appended so far
CrewRest(workflow, e1) ==
  LET e2 == TopCheck(workflow, "tasks", TRUE)
      e3 == IF HasList(workflow, "agents")
            THEN LET as == workflow.d["agents"].l
                 IN Flatten([i \in 1..Len(as) |-> CrewAgentErrors(i - 1, as[i])])
            ELSE <<>>
  IN IF ~HasList(workflow, "tasks") THEN FinalResult(e1 \o e2 \o e3)
     ELSE IF IterRaises(GetOrEmptyList(workflow, "agents")) THEN Raised
     ELSE
       LET agent_names == Names(GetOrEmptyList(workflow, "agents"), "name")
           ts == workflow.d["tasks"].l
           e4 == Flatten([i \in 1..Len(ts) |->
                            CrewTaskErrors(i - 1, ts[i], agent_names)])
       IN FinalResult(e1 \o e2 \o e3 \o e4)

\* mutant: return as soon as `agents` is found missing
CrewAfterAgentsCheckShort(workflow, e1) ==
  IF e1 = <<EMissing("agents")>> THEN FinalResult(e1) ELSE CrewRest(workflow, e1)

\* control after the `agents` chain: no branch of it returns, the method
\* goes on with the `tasks` chain
CrewAfterAgentsCheck(workflow, e1) == CrewRest(workflow, e1)

\* mutant: a missing `workflow` is recorded and the checks go on with an
\* empty workflow (workflow = config.get("workflow", {}))
CrewAIValidateGoesOn(config) ==
  IF ~KeyIn("workflow", config)
  THEN FinalResult(<<[msg |-> "MissingWorkflow"]>>
                   \o TopCheck(EmptyDict, "agents", TRUE)
                   \o TopCheck(EmptyDict, "tasks", TRUE))
  ELSE
    LET workflow == config.d["workflow"] IN
    IF TopCheckRaises(workflow, "agents") \/ TopCheckRaises(workflow, "tasks")
    THEN Raised
    ELSE CrewAfterAgentsCheck(workflow, TopCheck(workflow, "agents", TRUE))

CrewAIValidate(config) ==
  IF ~KeyIn("workflow", config) THEN MissingWorkflowResult
  ELSE
    LET workflow == config.d["workflow"] IN
    IF TopCheckRaises(workflow, "agents") \/ TopCheckRaises(workflow, "tasks")
    THEN Raised
    ELSE CrewAfterAgentsCheck(workflow, TopCheck(workflow, "agents", TRUE))

---------------------------------------------------------------------------
(* LangGraphAdapter.validate *)

RequiredNodeFields == <<"id", "type", "config">>

RequiredEdgeFields == <<"source", "target">>

\* the body of `for i, node in enumerate(workflow["nodes"])`
GraphNodeErrors(i, node) ==
  IF ~IsDict(node) THEN <<ENotDict("Node", i)>>
  ELSE FieldErrors("Node", i, node, RequiredNodeFields)

\* `"<role>" in edge and edge["<role>"] not in node_ids`
GraphUnknownNode(edge, role, node_ids) ==
  role \in DOMAIN edge.d /\ ~InList(edge.d[role], node_ids)

\* the body of `for i, edge in enumerate(workflow["edges"])`
GraphEdgeErrors(i, edge, node_ids) ==
  IF ~IsDict(edge) THEN <<ENotDict("Edge", i)>>
  ELSE FieldErrors("Edge", i, edge, RequiredEdgeFields)
       \o (IF GraphUnknownNode(edge, "source", node_ids)
           THEN <<ERef("Edge", i, "source", edge.d["source"])>> ELSE <<>>)
       \o (IF GraphUnknownNode(edge, "target", node_ids)
           THEN <<ERef("Edge", i, "target", edge.d["target"])>> ELSE <<>>)

\* the statements after the `nodes` chain (lines 72-115), e1 being the
\* errors appended so far
GraphRest(workflow, e1) ==
  LET e2 == TopCheck(workflow, "edges", FALSE)
      e3 == IF HasList(workflow, "nodes")
            THEN LET ns == workflow.d["nodes"].l
                 IN Flatten([i \in 1..Len(ns) |-> GraphNodeErrors(i - 1, ns[i])])
            ELSE <<>>
  IN IF ~HasList(workflow, "edges") THEN FinalResult(e1 \o e2 \o e3)
     ELSE IF IterRaises(GetOrEmptyList(workflow, "nodes")) THEN Raised
     ELSE
       LET node_ids == Names(GetOrEmptyList(workflow, "nodes"), "id")
           es == workflow.d["edges"].l
           e4 == Flatten([i \in 1..Len(es) |->
                            GraphEdgeErrors(i - 1, es[i], node_ids)])
       IN FinalResult(e1 \o e2 \o e3 \o e4)

\* mutant: return as soon as `nodes` is found missing
GraphAfterNodesCheckShort(workflow, e1) ==
  IF e1 = <<EMissing("nodes")>> THEN FinalResult(e1) ELSE GraphRest(workflow, e1)

\* control after the `nodes` chain: no branch of it returns, the method
\* goes on with the `edges` chain
GraphAfterNodesCheck(workflow, e1) == GraphRest(workflow, e1)

LangGraphValidate(config) ==
  IF ~KeyIn("workflow", config) THEN MissingWorkflowResult
  ELSE
    LET workflow == config.d["workflow"] IN
    IF TopCheckRaises(workflow, "nodes") \/ TopCheckRaises(workflow, "edges")
    THEN Raised
    ELSE GraphAfterNodesCheck(workflow, TopCheck(workflow, "nodes", TRUE))

\* validate of an adapter of class cls
Validate(cls, config) ==
  IF cls = "CrewAIAdapter" THEN CrewAIValidate(config)
  ELSE LangGraphValidate(config)

---------------------------------------------------------------------------
(* Definitions given to validate: the bounded input sets *)

\* marks a key that a definition leaves out (never a value of a dict)
AbsentV == [t |-> "absent"]

\* a value where a list is expected: null, a number, a string, a mapping
NonLists == {NoneV, NumV, StrV("s"), EmptyDict}

\* values of the identifying fields: two names and null
NameVals == {StrV("a"), StrV("ghost"), NoneV}

IdVals == {StrV("node1"), StrV("node2"), NoneV}

TargetVals == {StrV("node1"), StrV("END"), NoneV}

\* a dict item with the fields `others` (any string value) and, unless
\* absent, the field `key` holding `val`
ItemDict(key, val, others) ==
  DictV([k \in others \cup (IF val = AbsentV THEN {} ELSE {key}) |->
           IF k = key /\ val # AbsentV THEN val ELSE StrV("x")])

AgentFieldSets ==
  { {"role", "goal", "backstory", "model"}, {"goal", "backstory", "model"},
    {"role", "backstory"} }

TaskFieldSets ==
  { {"name", "description", "expectedOutput"}, {"description", "expectedOutput"},
    {"name"} }

NodeFieldSets == { {"type", "config"}, {"config"}, {} }

AgentItems ==
  {StrV("a")} \cup
  {ItemDict("name", n, o) : n \in NameVals \cup {AbsentV}, o \in AgentFieldSets}

TaskItems ==
  {StrV("a")} \cup
  {ItemDict("agent", n, o) : n \in NameVals \cup {AbsentV}, o \in TaskFieldSets}

NodeItems ==
  {StrV("a")} \cup
  {ItemDict("id", n, o) : n \in IdVals \cup {AbsentV}, o \in NodeFieldSets}

SourceVals == {StrV("node1"), StrV("ghost")}

\* an edge mapping with the given source and target, absent ones left out
EdgeDict(src, tgt) ==
  DictV([k \in (IF src = AbsentV THEN {} ELSE {"source"})
               \cup (IF tgt = AbsentV THEN {} ELSE {"target"}) |->
           IF k = "source" THEN src ELSE tgt])

EdgeItems ==
  {StrV("a")} \cup
  {EdgeDict(s, t) : s \in SourceVals \cup {AbsentV}, t \in TargetVals \cup {AbsentV}}

\* the workflow mapping {name: "W", k1: v1, k2: v2}, absent keys left out
WorkflowDict(k1, v1, k2, v2) ==
  DictV([k \in {"name"} \cup (IF v1 = AbsentV THEN {} ELSE {k1})
                        \cup (IF v2 = AbsentV THEN {} ELSE {k2}) |->
           IF k = k1 THEN v1 ELSE IF k = k2 THEN v2 ELSE StrV("W")])

\* a `workflow` value that is no mapping
OddWorkflows(k1, k2) ==
  {NoneV, NumV, StrV("s"), StrV(k1), StrV(k2), ListV(<<>>), ListV(<<StrV(k2)>>)}

ConfigOf(workflow) == DictV([k \in {"workflow"} |-> workflow])

\* the two collection keys of an adapter class and the items of each
Key1(cls) == IF cls = "CrewAIAdapter" THEN "agents" ELSE "nodes"

Key2(cls) == IF cls = "CrewAIAdapter" THEN "tasks" ELSE "edges"

Items1(cls) == IF cls = "CrewAIAdapter" THEN AgentItems ELSE NodeItems

Items2(cls) == IF cls = "CrewAIAdapter" THEN TaskItems ELSE EdgeItems

\* {"workflow": {name: "W", <key1>: v1, <key2>: v2}}
BodyConfig(cls, v1, v2) == ConfigOf(WorkflowDict(Key1(cls), v1, Key2(cls), v2))

---------------------------------------------------------------------------
(* The configurations of src/api/src/tests/test_orchestrator.py *)

CompleteAgent(name) == ItemDict("name", StrV(name), {"role", "goal", "backstory", "model"})

CompleteTask(agent) ==
  ItemDict("agent", StrV(agent), {"name", "description", "expectedOutput"})

CompleteNode(id) == ItemDict("id", StrV(id), {"type", "config"})

ValidCrewConfig ==
  ConfigOf(WorkflowDict("agents", ListV(<<CompleteAgent("a")>>),
                        "tasks", ListV(<<CompleteTask("a")>>)))

MissingAgentsConfig ==
  ConfigOf(WorkflowDict("agents", AbsentV, "tasks", ListV(<<>>)))

EndEdgeGraphConfig ==
  ConfigOf(WorkflowDict("nodes", ListV(<<CompleteNode("node1")>>),
                        "edges", ListV(<<EdgeDict(StrV("node1"), StrV("END"))>>)))

MissingNodesConfig ==
  ConfigOf(WorkflowDict("nodes", AbsentV, "edges", ListV(<<>>)))

\* the definitions the lifecycle model passes to validate and execute: the
\* two of test_crewai_execute and test_langgraph_execute; each adapter rejects
\* the other framework's definition
SampleConfigs == {ValidCrewConfig, EndEdgeGraphConfig}

---------------------------------------------------------------------------
(* State *)

Classes == {"CrewAIAdapter", "LangGraphAdapter"}

\* the adapter objects of a behaviour: an instance A and another instance B,
\* in the order they are constructed
Instances == {1, 2}

RunIds == 1..MaxRuns

\* framework names callers pass, and str.lower() of each
FrameworkNames == {"crewai", "CrewAI", "langgraph", "custom", "unknown-framework"}

\* names passed to register after startup
RegisterNames == {"CrewAI", "custom"}

\* the names the registry is exercised with: the spellings of the tests and
\* mixed-case spellings of the other names
FactoryNames ==
  {"crewai", "CrewAI", "CREWAI", "langgraph", "LangGraph", "custom", "Custom",
   "unknown-framework"}

\* str.lower() of the names above
Lower(name) ==
  CASE name \in {"crewai", "CrewAI", "CREWAI"} -> "crewai"
    [] name \in {"langgraph", "LangGraph"} -> "langgraph"
    [] name \in {"custom", "Custom"} -> "custom"
    [] OTHER -> name

\* an instance slot no constructor has filled yet
NoInstance == [cls |-> "none", workflows |-> <<>>]

\* the result slot of a call that has not returned yet
Pending == [kind |-> "pending"]

NoCall == [op |-> "none", inst |-> 0, cls |-> "none", arg |-> NoneV, res |-> Pending]

\* __init__: self.workflows = {}
NewAdapter(cls) == [cls |-> cls, workflows |-> [r \in {} |-> NoneV]]

\* workflows_db: Dict[str, Dict] = {}
NoRuns == [r \in {} |-> NoneV]

\* the callers that may be inside a method of an adapter at the same time
Callers == {1, 2}

\* a caller that is inside no method
Idle == [op |-> "none", pc |-> "idle"]

NoFrames == [c \in Callers |-> Idle]

\* the registry after main.py has registered the two adapters
StartupRegistry ==
  [n \in {"crewai", "langgraph"} |->
     IF n = "crewai" THEN "CrewAIAdapter" ELSE "LangGraphAdapter"]

Init ==
  /\ registry = StartupRegistry
  /\ stores = [i \in Instances |-> NoInstance]
  /\ issued = {}
  /\ call = NoCall
  /\ streams = <<>>
  /\ workflows_db = NoRuns
  /\ frames = NoFrames

Live(i) == stores[i].cls # "none"

---------------------------------------------------------------------------
(* Operations *)

\* mutant: a name that is registered already keeps its class
\* (cls._orchestrators.setdefault(framework.lower(), orchestrator_class))
RegisterKeepsFirst(name, cls) ==
  /\ registry' = [n \in DOMAIN registry \cup {Lower(name)} |->
                    IF n \in DOMAIN registry THEN registry[n] ELSE cls]
  /\ call' = [op |-> "register", inst |-> 0, cls |-> cls, arg |-> StrV(name),
              res |-> NoneV]
  /\ UNCHANGED <<stores, issued, streams, workflows_db, frames>>

\* OrchestratorFactory.register
Register(name, cls) ==
  /\ registry' = [n \in DOMAIN registry \cup {Lower(name)} |->
                    IF n = Lower(name) THEN cls ELSE registry[n]]
  /\ call' = [op |-> "register", inst |-> 0, cls |-> cls, arg |-> StrV(name),
              res |-> NoneV]
  /\ UNCHANGED <<stores, issued, streams, workflows_db, frames>>

\* mutant: the name is looked up as given
\* (if framework not in cls._orchestrators)
GetOrchestratorExact(name) ==
  IF name \notin DOMAIN registry
  THEN /\ call' = [op |-> "get_orchestrator", inst |-> 0, cls |-> "none",
                   arg |-> StrV(name),
                   res |-> [kind |-> "raise", exc |-> "ValueError",
                            supported |-> DOMAIN registry]]
       /\ UNCHANGED <<registry, stores, issued, streams, workflows_db, frames>>
  ELSE \E i \in Instances :
         /\ ~Live(i)
         /\ \A j \in Instances : j < i => Live(j)
         /\ stores' = [stores EXCEPT ![i] = NewAdapter(registry[name])]
         /\ call' = [op |-> "get_orchestrator", inst |-> i,
                     cls |-> registry[name], arg |-> StrV(name),
                     res |-> [kind |-> "ret"]]
         /\ UNCHANGED <<registry, issued, streams, workflows_db, frames>>

\* mutant: a name that is not registered falls back to the default framework
\* (cls._orchestrators.get(framework_lower, cls._orchestrators["crewai"]))
GetOrchestratorDefaults(name) ==
  LET key == IF Lower(name) \in DOMAIN registry THEN Lower(name) ELSE "crewai" IN
  \E i \in Instances :
    /\ ~Live(i)
    /\ \A j \in Instances : j < i => Live(j)
    /\ stores' = [stores EXCEPT ![i] = NewAdapter(registry[key])]
    /\ call' = [op |-> "get_orchestrator", inst |-> i,
                cls |-> registry[key], arg |-> StrV(name),
                res |-> [kind |-> "ret"]]
    /\ UNCHANGED <<registry, issued, streams, workflows_db, frames>>

\* mutant: the factory keeps the adapter it made for a class and returns it
\* again (a cache of instances next to the classes)
GetOrchestratorCached(name) ==
  IF Lower(name) \notin DOMAIN registry
  THEN /\ call' = [op |-> "get_orchestrator", inst |-> 0, cls |-> "none",
                   arg |-> StrV(name),
                   res |-> [kind |-> "raise", exc |-> "ValueError",
                            supported |-> DOMAIN registry]]
       /\ UNCHANGED <<registry, stores, issued, streams, workflows_db, frames>>
  ELSE IF \E k \in Instances : stores[k].cls = registry[Lower(name)]
  THEN \E k \in Instances :
         /\ stores[k].cls = registry[Lower(name)]
         /\ call' = [op |-> "get_orchestrator", inst |-> k,
                     cls |-> registry[Lower(name)], arg |-> StrV(name),
                     res |-> [kind |-> "ret"]]
         /\ UNCHANGED <<registry, stores, issued, streams, workflows_db, frames>>
  ELSE \E i \in Instances :
         /\ ~Live(i)
         /\ \A j \in Instances : j < i => Live(j)
         /\ stores' = [stores EXCEPT ![i] = NewAdapter(registry[Lower(name)])]
         /\ call' = [op |-> "get_orchestrator", inst |-> i,
                     cls |-> registry[Lower(name)], arg |-> StrV(name),
                     res |-> [kind |-> "ret"]]
         /\ UNCHANGED <<registry, issued, streams, workflows_db, frames>>

\* OrchestratorFactory.get_orchestrator: a fresh instance, or ValueError
GetOrchestrator(name) ==
  IF Lower(name) \notin DOMAIN registry
  THEN /\ call' = [op |-> "get_orchestrator", inst |-> 0, cls |-> "none",
                   arg |-> StrV(name),
                   res |-> [kind |-> "raise", exc |-> "ValueError",
                            supported |-> DOMAIN registry]]
       /\ UNCHANGED <<registry, stores, issued, streams, workflows_db, frames>>
  ELSE \E i \in Instances :
         /\ ~Live(i)
         /\ \A j \in Instances : j < i => Live(j)
         /\ stores' = [stores EXCEPT ![i] = NewAdapter(registry[Lower(name)])]
         /\ call' = [op |-> "get_orchestrator", inst |-> i,
                     cls |-> registry[Lower(name)], arg |-> StrV(name),
                     res |-> [kind |-> "ret"]]
         /\ UNCHANGED <<registry, issued, streams, workflows_db, frames>>

\* mutant: validate keeps the configuration it was given in self.workflows
StoresAfterValidateKeeps(s, i, config) ==
  [s EXCEPT ![i].workflows =
     [r \in DOMAIN @ \cup {0} |->
        IF r = 0 THEN [config |-> config, status |-> "validated", progress |-> 0]
        ELSE @[r]]]

\* self.workflows after validate(config) on instance i: validate assigns
\* nothing to self
StoresAfterValidate(s, i, config) == s

\* CrewAIAdapter.validate / LangGraphAdapter.validate on instance i
DoValidate(i, config) ==
  /\ Live(i)
  /\ stores' = StoresAfterValidate(stores, i, config)
  /\ call' = [op |-> "validate", inst |-> i, cls |-> stores[i].cls,
              arg |-> config, res |-> Validate(stores[i].cls, config)]
  /\ UNCHANGED <<registry, issued, streams, workflows_db, frames>>

\* mutant: the store is replaced instead of extended
\* (self.workflows = {workflow_id: {...}})
StoreRunReplaces(ws, id, config) ==
  [r \in {id} |-> [config |-> config, status |-> "running", progress |-> 0]]

\* self.workflows[workflow_id] = {"config": config, "status": "running", "progress": 0}
StoreRun(ws, id, config) ==
  [r \in DOMAIN ws \cup {id} |->
     IF r = id THEN [config |-> config, status |-> "running", progress |-> 0]
     ELSE ws[r]]

\* str(uuid.uuid4()): an id never issued before; ids are opaque, so the
\* smallest unused one stands for any of them
FreshIds == {id \in RunIds \ issued : \A other \in RunIds \ issued : id <= other}

\* mutant: workflows is a class attribute, one dict shared by all the
\* instances of the class
ExecuteShared(i, config) ==
  /\ Live(i)
  /\ \E id \in FreshIds :
       /\ stores' = [j \in Instances |->
                       IF stores[j].cls = stores[i].cls
                       THEN [stores[j] EXCEPT !.workflows = StoreRun(@, id, config)]
                       ELSE stores[j]]
       /\ issued' = issued \cup {id}
       /\ call' = [op |-> "execute", inst |-> i, cls |-> stores[i].cls,
                   arg |-> config,
                   res |-> [kind |-> "ret", workflow_id |-> id, status |-> "started"]]
  /\ UNCHANGED <<registry, streams, workflows_db, frames>>

\* execute
Execute(i, config) ==
  /\ Live(i)
  /\ \E id \in FreshIds :
       /\ stores' = [stores EXCEPT ![i].workflows = StoreRun(@, id, config)]
       /\ issued' = issued \cup {id}
       /\ call' = [op |-> "execute", inst |-> i, cls |-> stores[i].cls,
                   arg |-> config,
                   res |-> [kind |-> "ret", workflow_id |-> id, status |-> "started"]]
  /\ UNCHANGED <<registry, streams, workflows_db, frames>>

\* mutant: the lookup of an unknown id leaves an entry behind, as
\* self.workflows.setdefault(workflow_id, {...}) would
GetStatusCreates(i, id) ==
  /\ Live(i)
  /\ stores' = IF id \in DOMAIN stores[i].workflows THEN stores
               ELSE [stores EXCEPT ![i].workflows =
                       [r \in DOMAIN @ \cup {id} |->
                          IF r = id
                          THEN [config |-> NoneV, status |-> "not_found", progress |-> 0]
                          ELSE @[r]]]
  /\ call' = [op |-> "get_status", inst |-> i, cls |-> stores[i].cls,
              arg |-> [t |-> "id", id |-> id],
              res |-> IF id \notin DOMAIN stores[i].workflows
                      THEN [kind |-> "ret", workflow_id |-> id, status |-> "not_found"]
                      ELSE [kind |-> "ret", workflow_id |-> id,
                            status |-> stores[i].workflows[id].status,
                            progress |-> stores[i].workflows[id].progress]]
  /\ UNCHANGED <<registry, issued, streams, workflows_db, frames>>

\* mutant: get_status moves a running run to its end, as a poll of a
\* finished execution would (workflow["status"] = "completed")
GetStatusAdvances(i, id) ==
  /\ Live(i)
  /\ stores' = IF id \in DOMAIN stores[i].workflows
                  /\ stores[i].workflows[id].status = "running"
               THEN [stores EXCEPT ![i].workflows[id].status = "completed",
                                   ![i].workflows[id].progress = 100]
               ELSE stores
  /\ call' = [op |-> "get_status", inst |-> i, cls |-> stores[i].cls,
              arg |-> [t |-> "id", id |-> id],
              res |-> IF id \notin DOMAIN stores[i].workflows
                      THEN [kind |-> "ret", workflow_id |-> id, status |-> "not_found"]
                      ELSE [kind |-> "ret", workflow_id |-> id,
                            status |-> stores'[i].workflows[id].status,
                            progress |-> stores'[i].workflows[id].progress]]
  /\ UNCHANGED <<registry, issued, streams, workflows_db, frames>>

\* get_status
GetStatus(i, id) ==
  /\ Live(i)
  /\ call' = [op |-> "get_status", inst |-> i, cls |-> stores[i].cls,
              arg |-> [t |-> "id", id |-> id],
              res |-> IF id \notin DOMAIN stores[i].workflows
                      THEN [kind |-> "ret", workflow_id |-> id, status |-> "not_found"]
                      ELSE [kind |-> "ret", workflow_id |-> id,
                            status |-> stores[i].workflows[id].status,
                            progress |-> stores[i].workflows[id].progress]]
  /\ UNCHANGED <<registry, stores, issued, streams, workflows_db, frames>>

\* mutant: stop forgets the run (del self.workflows[workflow_id])
StopDeletes(i, id) ==
  /\ Live(i)
  /\ stores' = [stores EXCEPT ![i].workflows =
                  [r \in DOMAIN @ \ {id} |-> @[r]]]
  /\ call' = [op |-> "stop", inst |-> i, cls |-> stores[i].cls,
              arg |-> [t |-> "id", id |-> id],
              res |-> [kind |-> "ret", value |-> id \in DOMAIN stores[i].workflows]]
  /\ UNCHANGED <<registry, issued, streams, workflows_db, frames>>

\* mutant: only a run that is still running can be stopped
\* (if self.workflows[workflow_id]["status"] == "stopped": return False)
StopOnce(i, id) ==
  /\ Live(i)
  /\ IF id \in DOMAIN stores[i].workflows
        /\ stores[i].workflows[id].status # "stopped"
     THEN /\ stores' = [stores EXCEPT ![i].workflows[id].status = "stopped"]
          /\ call' = [op |-> "stop", inst |-> i, cls |-> stores[i].cls,
                      arg |-> [t |-> "id", id |-> id],
                      res |-> [kind |-> "ret", value |-> TRUE]]
     ELSE /\ stores' = stores
          /\ call' = [op |-> "stop", inst |-> i, cls |-> stores[i].cls,
                      arg |-> [t |-> "id", id |-> id],
                      res |-> [kind |-> "ret", value |-> FALSE]]
  /\ UNCHANGED <<registry, issued, streams, workflows_db, frames>>

\* stop
Stop(i, id) ==
  /\ Live(i)
  /\ IF id \notin DOMAIN stores[i].workflows
     THEN /\ stores' = stores
          /\ call' = [op |-> "stop", inst |-> i, cls |-> stores[i].cls,
                      arg |-> [t |-> "id", id |-> id],
                      res |-> [kind |-> "ret", value |-> FALSE]]
     ELSE /\ stores' = [stores EXCEPT ![i].workflows[id].status = "stopped"]
          /\ call' = [op |-> "stop", inst |-> i, cls |-> stores[i].cls,
                      arg |-> [t |-> "id", id |-> id],
                      res |-> [kind |-> "ret", value |-> TRUE]]
  /\ UNCHANGED <<registry, issued, streams, workflows_db, frames>>

Next ==
  \/ \E n \in RegisterNames, c \in Classes : Register(n, c)
  \/ \E n \in FrameworkNames : GetOrchestrator(n)
  \/ \E i \in Instances, cfg \in SampleConfigs : DoValidate(i, cfg)
  \/ \E i \in Instances, cfg \in SampleConfigs : Execute(i, cfg)
  \/ \E i \in Instances, id \in RunIds : GetStatus(i, id)
  \/ \E i \in Instances, id \in RunIds : Stop(i, id)

Spec == Init /\ [][Next]_vars

---------------------------------------------------------------------------
(* Runs of the adapters the startup registry resolves: the registry stays  *)
(* as main.py leaves it, and the adapters execute, report and stop runs    *)

NextL ==
  \/ \E n \in DOMAIN StartupRegistry : GetOrchestrator(n)
  \/ \E i \in Instances, cfg \in SampleConfigs : Execute(i, cfg)
  \/ \E i \in Instances, id \in RunIds : GetStatus(i, id)
  \/ \E i \in Instances, id \in RunIds : Stop(i, id)

SpecL == Init /\ [][NextL]_vars

---------------------------------------------------------------------------
(* Validation of one definition: the adapter is constructed, the definition *)
(* is drawn from the bounded input sets, and validate is applied to it      *)

\* validate(config) has been called on a new adapter of class cls
PendingValidate(cls, config) ==
  call = [op |-> "validate", inst |-> 1, cls |-> cls, arg |-> config,
          res |-> Pending]

\* the definitions given to validate: within MaxItems items in all, a
\* collection that is absent or no list counting as one item
InitV ==
  /\ registry = StartupRegistry
  /\ stores = [i \in Instances |-> NoInstance]
  /\ issued = {}
  /\ streams = <<>>
  /\ workflows_db = NoRuns
  /\ frames = NoFrames
  /\ \E cls \in Classes :
       LET odd == NonLists \cup {AbsentV} IN
       \/ PendingValidate(cls, EmptyDict)
       \/ \E w \in OddWorkflows(Key1(cls), Key2(cls)) :
            PendingValidate(cls, ConfigOf(w))
       \/ \E k \in 0..MaxItems : \E m \in 0..(MaxItems - k) :
            \E a \in [1..k -> Items1(cls)] : \E b \in [1..m -> Items2(cls)] :
              PendingValidate(cls, BodyConfig(cls, ListV(a), ListV(b)))
       \/ \E x \in odd : \E m \in 0..(MaxItems - 1) :
            \E b \in [1..m -> Items2(cls)] :
              PendingValidate(cls, BodyConfig(cls, x, ListV(b)))
       \/ \E k \in 0..(MaxItems - 1) : \E a \in [1..k -> Items1(cls)] :
            \E y \in odd :
              PendingValidate(cls, BodyConfig(cls, ListV(a), y))
       \/ MaxItems >= 2 /\ \E x \in odd : \E y \in odd :
            PendingValidate(cls, BodyConfig(cls, x, y))

\* the constructor call and the validate call of the tests:
\* adapter = CrewAIAdapter(); await adapter.validate(config)
ValidateV ==
  /\ call.res = Pending
  /\ stores' = StoresAfterValidate([stores EXCEPT ![1] = NewAdapter(call.cls)],
                                   1, call.arg)
  /\ call' = [call EXCEPT !.res = Validate(call.cls, call.arg)]
  /\ UNCHANGED <<registry, issued, streams, workflows_db, frames>>

NextV == ValidateV

SpecV == InitV /\ [][NextV]_vars

---------------------------------------------------------------------------
(* The registry on its own: registrations and lookups under every spelling *)

\* OrchestratorFactory.get_supported_frameworks: list(cls._orchestrators.keys())
GetSupportedFrameworks ==
  /\ call' = [op |-> "get_supported_frameworks", inst |-> 0, cls |-> "none",
              arg |-> NoneV, res |-> [kind |-> "ret", names |-> DOMAIN registry]]
  /\ UNCHANGED <<registry, stores, issued, streams, workflows_db, frames>>

NextF ==
  \/ \E n \in FactoryNames, c \in Classes : Register(n, c)
  \/ \E n \in FactoryNames : GetOrchestrator(n)
  \/ GetSupportedFrameworks

SpecF == Init /\ [][NextF]_vars

---------------------------------------------------------------------------
(* The HTTP layer: routers/workflows.py. A request body is parsed into the  *)
(* pydantic model of models.py, which keeps the declared fields only; an    *)
(* object is a function from its attribute names to their values.           *)

\* class StartWorkflowRequest(BaseModel): workflow, providerConfig
RequestFields == {"workflow", "providerConfig"}

\* class Workflow(BaseModel): name, description, agents, tasks
WorkflowFields == {"name", "description", "agents", "tasks"}

\* names of agents and agent references of tasks in request bodies
BodyAgentNames == {"a", "b"}

BodyTaskAgents == {"a", "ghost"}

\* the "framework" entry of a request body; AbsentV when it is left out
BodyFrameworks == {AbsentV} \cup {StrV(n) : n \in FrameworkNames}

\* a JSON body that passes the checks of the pydantic models: every agent
\* and every task has all its required fields
Body(framework, agents, tasks) ==
  [framework |-> framework, agents |-> agents, tasks |-> tasks]

\* Workflow(**body["workflow"])
Workflow(body) ==
  [a \in WorkflowFields |->
     CASE a = "name" -> StrV("W")
       [] a = "description" -> NoneV
       [] a = "agents" ->
            ListV([k \in 1..Len(body.agents) |-> CompleteAgent(body.agents[k])])
       [] OTHER ->
            ListV([k \in 1..Len(body.tasks) |-> CompleteTask(body.tasks[k])])]

\* StartWorkflowRequest(**body): entries that are no field are ignored
StartWorkflowRequest(body) ==
  [a \in RequestFields |-> IF a = "workflow" THEN Workflow(body) ELSE NoneV]

HasAttr(obj, a) == a \in DOMAIN obj

\* bool(v) of a name or None
Truthy(v) == v # NoneV /\ v # StrV("")

AttributeError == [kind |-> "raise", exc |-> "AttributeError"]

\* framework = request.framework or request.workflow.framework or "crewai"
FrameworkOf(request) ==
  IF ~HasAttr(request, "framework") THEN AttributeError
  ELSE IF Truthy(request["framework"])
       THEN [kind |-> "ret", value |-> request["framework"].s]
  ELSE IF ~HasAttr(request["workflow"], "framework") THEN AttributeError
  ELSE IF Truthy(request["workflow"]["framework"])
       THEN [kind |-> "ret", value |-> request["workflow"]["framework"].s]
  ELSE [kind |-> "ret", value |-> "crewai"]

\* config = {"workflow": request.workflow.model_dump(), "providerConfig": None}
RequestConfig(request) ==
  DictV([k \in {"workflow", "providerConfig"} |->
           IF k = "workflow" THEN DictV(request["workflow"]) ELSE NoneV])

\* the response of a handler: the status code, the exception behind an
\* error, and the adapter methods the handler has called, in order
Http(code, exc, invoked) ==
  [kind |-> "http", status_code |-> code, exc |-> exc, invoked |-> invoked]

RouterCall(op, i, arg, res) ==
  [op |-> op, inst |-> i, cls |-> IF i = 0 THEN "none" ELSE stores'[i].cls,
   arg |-> arg, res |-> res]

\* the try block of start_workflow
StartResolved(body, request, framework) ==
  IF Lower(framework) \notin DOMAIN registry
  THEN \* ValueError of get_orchestrator -> HTTPException(400)
       /\ call' = RouterCall("start_workflow", 0, body, Http(400, "ValueError", <<>>))
       /\ UNCHANGED <<registry, stores, issued, streams, workflows_db, frames>>
  ELSE \E i \in Instances : \E id \in FreshIds :
         /\ ~Live(i)
         /\ \A j \in Instances : j < i => Live(j)
         /\ stores' = [stores EXCEPT ![i] =
                         [NewAdapter(registry[Lower(framework)]) EXCEPT
                            !.workflows = StoreRun(@, id, RequestConfig(request))]]
         /\ issued' = issued \cup {id}
         /\ workflows_db' =
              [r \in DOMAIN workflows_db \cup {id} |->
                 IF r = id
                 THEN [framework |-> framework, status |-> "started",
                       progress |-> 0, orchestrator |-> i]
                 ELSE workflows_db[r]]
         /\ call' = RouterCall("start_workflow", i, body,
                               Http(200, "none", <<"execute">>) @@
                               [workflowId |-> id, status |-> "started"])
         /\ UNCHANGED <<registry, streams, frames>>

\* POST /workflows/start
StartWorkflow(body) ==
  LET request == StartWorkflowRequest(body)
      framework == FrameworkOf(request)
  IN IF framework.kind = "raise"
     THEN \* raised before the try block: general_exception_handler -> 500
          /\ call' = RouterCall("start_workflow", 0, body,
                                Http(500, framework.exc, <<>>))
          /\ UNCHANGED <<registry, stores, issued, streams, workflows_db, frames>>
     ELSE StartResolved(body, request, framework.value)

\* POST /workflows/stop
StopWorkflow(id) ==
  IF id \notin DOMAIN workflows_db
  THEN /\ call' = RouterCall("stop_workflow", 0, [t |-> "id", id |-> id],
                             Http(404, "HTTPException", <<>>))
       /\ UNCHANGED <<registry, stores, issued, streams, workflows_db, frames>>
  ELSE LET i == workflows_db[id].orchestrator IN
       /\ stores' = IF id \in DOMAIN stores[i].workflows
                    THEN [stores EXCEPT ![i].workflows[id].status = "stopped"]
                    ELSE stores
       /\ workflows_db' = [workflows_db EXCEPT ![id].status = "stopped"]
       /\ call' = RouterCall("stop_workflow", i, [t |-> "id", id |-> id],
                             Http(200, "none", <<"stop">>) @@ [status |-> "stopped"])
       /\ UNCHANGED <<registry, issued, streams, frames>>

\* WorkflowStatusResponse.status: Literal[...]
StatusLiteral == {"idle", "running", "completed", "failed", "stopped"}

\* the response of get_workflow_status for table db: the handler builds
\* WorkflowStatusResponse from the entry, and a status outside the Literal
\* is a ValidationError, which general_exception_handler answers with 500
StatusResponse(db, id) ==
  IF id \notin DOMAIN db THEN Http(404, "HTTPException", <<>>)
  ELSE IF db[id].status \notin StatusLiteral
       THEN Http(500, "ValidationError", <<>>)
  ELSE Http(200, "none", <<>>) @@
       [status |-> db[id].status, progress |-> db[id].progress]

\* GET /workflows/{workflowId}/status
GetWorkflowStatus(id) ==
  /\ call' = RouterCall("get_workflow_status", 0, [t |-> "id", id |-> id],
                        StatusResponse(workflows_db, id))
  /\ UNCHANGED <<registry, stores, issued, streams, workflows_db, frames>>

NextR ==
  \/ \E f \in BodyFrameworks : \E k \in 0..MaxItems : \E m \in 0..(MaxItems - k) :
       \E agents \in [1..k -> BodyAgentNames] : \E tasks \in [1..m -> BodyTaskAgents] :
         StartWorkflow(Body(f, agents, tasks))
  \/ \E id \in RunIds : StopWorkflow(id)
  \/ \E id \in RunIds : GetWorkflowStatus(id)

SpecR == Init /\ [][NextR]_vars

---------------------------------------------------------------------------
(* Streaming: stream is an async generator function. Calling it makes a     *)
(* generator object and runs nothing; each __anext__ runs the body up to    *)
(* the next yield, and past the last yield it raises StopAsyncIteration.    *)

\* a progress update dictionary
Update(id, status, progress) ==
  [workflow_id |-> id, status |-> status, progress |-> progress]

\* the generator object stream(config) returns: pc counts the yields passed
\* (3: the body has ended), id is the local workflow_id (0 before execute),
\* out the updates yielded so far
NewGenerator(i, config) ==
  [inst |-> i, config |-> config, pc |-> 0, id |-> 0, out |-> <<>>]

\* adapter.stream(config)
Stream(i, config) ==
  /\ Live(i)
  /\ Len(streams) < MaxStreams
  /\ streams' = Append(streams, NewGenerator(i, config))
  /\ call' = [op |-> "stream", inst |-> i, cls |-> stores[i].cls, arg |-> config,
              res |-> [kind |-> "ret", gen |-> Len(streams) + 1]]
  /\ UNCHANGED <<registry, stores, issued, workflows_db, frames>>

AnextCall(g, res) ==
  [op |-> "anext", inst |-> streams[g].inst, cls |-> stores[streams[g].inst].cls,
   arg |-> [t |-> "gen", gen |-> g], res |-> res]

Yielded(u) == [kind |-> "yield", update |-> u]

StopAsyncIteration == [kind |-> "raise", exc |-> "StopAsyncIteration"]

\* mutant: the terminal update is yielded again on every further __anext__
StreamNextRepeats(g) ==
  LET gen == streams[g] IN
  IF gen.pc = 0
  THEN \E id \in FreshIds :
         /\ stores' = [stores EXCEPT ![gen.inst].workflows = StoreRun(@, id, gen.config)]
         /\ issued' = issued \cup {id}
         /\ streams' = [streams EXCEPT ![g] =
                          [gen EXCEPT !.pc = 1, !.id = id,
                                      !.out = <<Update(id, "started", 0)>>]]
         /\ call' = AnextCall(g, Yielded(Update(id, "started", 0)))
         /\ UNCHANGED <<registry, workflows_db, frames>>
  ELSE /\ Len(gen.out) < 4
       /\ streams' = [streams EXCEPT ![g] =
                        [gen EXCEPT !.pc = 2,
                                    !.out = Append(@, Update(gen.id, "completed", 100))]]
       /\ call' = AnextCall(g, Yielded(Update(gen.id, "completed", 100)))
       /\ UNCHANGED <<registry, stores, issued, workflows_db, frames>>

\* mutant: the generator writes the end of the run into the record before
\* its terminal update (self.workflows[workflow_id]["status"] = "completed")
StreamNextCompletes(g) ==
  LET gen == streams[g] IN
  CASE gen.pc = 0 ->
         \E id \in FreshIds :
           /\ stores' = [stores EXCEPT ![gen.inst].workflows = StoreRun(@, id, gen.config)]
           /\ issued' = issued \cup {id}
           /\ streams' = [streams EXCEPT ![g] =
                            [gen EXCEPT !.pc = 1, !.id = id,
                                        !.out = <<Update(id, "started", 0)>>]]
           /\ call' = AnextCall(g, Yielded(Update(id, "started", 0)))
           /\ UNCHANGED <<registry, workflows_db, frames>>
    [] gen.pc = 1 ->
         /\ stores' = [stores EXCEPT
                         ![gen.inst].workflows[gen.id].status = "completed",
                         ![gen.inst].workflows[gen.id].progress = 100]
         /\ streams' = [streams EXCEPT ![g] =
                          [gen EXCEPT !.pc = 2,
                                      !.out = Append(@, Update(gen.id, "completed", 100))]]
         /\ call' = AnextCall(g, Yielded(Update(gen.id, "completed", 100)))
         /\ UNCHANGED <<registry, issued, workflows_db, frames>>
    [] OTHER ->
         /\ streams' = [streams EXCEPT ![g] = [gen EXCEPT !.pc = 3]]
         /\ call' = AnextCall(g, StopAsyncIteration)
         /\ UNCHANGED <<registry, stores, issued, workflows_db, frames>>

\* await generator.__anext__(), one step of `async for update in stream(config)`
StreamNext(g) ==
  LET gen == streams[g] IN
  CASE gen.pc = 0 ->
         \* result = await self.execute(config); first yield
         \E id \in FreshIds :
           /\ stores' = [stores EXCEPT ![gen.inst].workflows = StoreRun(@, id, gen.config)]
           /\ issued' = issued \cup {id}
           /\ streams' = [streams EXCEPT ![g] =
                            [gen EXCEPT !.pc = 1, !.id = id,
                                        !.out = <<Update(id, "started", 0)>>]]
           /\ call' = AnextCall(g, Yielded(Update(id, "started", 0)))
           /\ UNCHANGED <<registry, workflows_db, frames>>
    [] gen.pc = 1 ->
         \* second yield
         /\ streams' = [streams EXCEPT ![g] =
                          [gen EXCEPT !.pc = 2,
                                      !.out = Append(@, Update(gen.id, "completed", 100))]]
         /\ call' = AnextCall(g, Yielded(Update(gen.id, "completed", 100)))
         /\ UNCHANGED <<registry, stores, issued, workflows_db, frames>>
    [] OTHER ->
         \* the body has ended, or ended before
         /\ streams' = [streams EXCEPT ![g] = [gen EXCEPT !.pc = 3]]
         /\ call' = AnextCall(g, StopAsyncIteration)
         /\ UNCHANGED <<registry, stores, issued, workflows_db, frames>>

\* the definition written for an adapter class
OwnConfig(cls) ==
  IF cls = "CrewAIAdapter" THEN ValidCrewConfig ELSE EndEdgeGraphConfig

\* adapter = CrewAIAdapter() and adapter = LangGraphAdapter(), as the tests
\* construct them
InitS ==
  /\ registry = StartupRegistry
  /\ stores = [i \in Instances |->
                 NewAdapter(IF i = 1 THEN "CrewAIAdapter" ELSE "LangGraphAdapter")]
  /\ issued = {}
  /\ call = NoCall
  /\ streams = <<>>
  /\ workflows_db = NoRuns
  /\ frames = NoFrames

NextS ==
  \/ \E i \in Instances : Stream(i, OwnConfig(stores[i].cls))
  \/ \E g \in 1..Len(streams) : StreamNext(g)
  \/ \E i \in Instances, id \in RunIds : GetStatus(i, id)
  \/ \E i \in Instances, id \in RunIds : Stop(i, id)

SpecS == InitS /\ [][NextS]_vars

\* one adapter of either class, constructed as the tests construct it
InitM ==
  /\ registry = StartupRegistry
  /\ \E cls \in Classes :
       stores = [i \in Instances |-> IF i = 1 THEN NewAdapter(cls) ELSE NoInstance]
  /\ issued = {}
  /\ call = NoCall
  /\ streams = <<>>
  /\ workflows_db = NoRuns
  /\ frames = NoFrames

\* the four run operations of the adapter together
NextM ==
  \/ \E i \in Instances : Execute(i, OwnConfig(stores[i].cls))
  \/ \E i \in Instances : Stream(i, OwnConfig(stores[i].cls))
  \/ \E g \in 1..Len(streams) : StreamNext(g)
  \/ \E i \in Instances, id \in RunIds : GetStatus(i, id)
  \/ \E i \in Instances, id \in RunIds : Stop(i, id)

SpecM == InitM /\ [][NextM]_vars

---------------------------------------------------------------------------
(* Concurrent callers of one adapter: the methods split at their reads and  *)
(* writes of self.workflows. A frame holds the position of a caller inside  *)
(* a method with its locals; a method that has returned is in `call`.       *)

CallOf(fr, arg, res) ==
  [op |-> fr.op, inst |-> fr.inst, cls |-> stores[fr.inst].cls, arg |-> arg, res |-> res]

\* mutant: the id is a counter taken from the size of the mapping
\* (workflow_id = str(len(self.workflows) + 1))
ExecuteCallCounts(c, i, config) ==
  /\ Live(i) /\ frames[c] = Idle
  /\ Cardinality(DOMAIN stores[i].workflows) < MaxRuns
  /\ LET id == Cardinality(DOMAIN stores[i].workflows) + 1 IN
       /\ issued' = issued \cup {id}
       /\ frames' = [frames EXCEPT ![c] =
                       [op |-> "execute", pc |-> "store", inst |-> i,
                        config |-> config, workflow_id |-> id]]
  /\ UNCHANGED <<registry, stores, call, streams, workflows_db>>

\* execute, up to workflow_id = str(uuid.uuid4())
ExecuteCall(c, i, config) ==
  /\ Live(i) /\ frames[c] = Idle
  /\ \E id \in FreshIds :
       /\ issued' = issued \cup {id}
       /\ frames' = [frames EXCEPT ![c] =
                       [op |-> "execute", pc |-> "store", inst |-> i,
                        config |-> config, workflow_id |-> id]]
  /\ UNCHANGED <<registry, stores, call, streams, workflows_db>>

\* execute: self.workflows[workflow_id] = {...}; return {...}
ExecuteStore(c) ==
  LET fr == frames[c] IN
  /\ fr.pc = "store"
  /\ stores' = [stores EXCEPT ![fr.inst].workflows =
                  StoreRun(@, fr.workflow_id, fr.config)]
  /\ call' = CallOf(fr, fr.config,
                    [kind |-> "ret", workflow_id |-> fr.workflow_id, status |-> "started"])
  /\ frames' = [frames EXCEPT ![c] = Idle]
  /\ UNCHANGED <<registry, issued, streams, workflows_db>>

\* get_status: `if workflow_id not in self.workflows: return {...}`, else
\* workflow = self.workflows[workflow_id]
GetStatusTest(c, i, id) ==
  /\ Live(i) /\ frames[c] = Idle
  /\ IF id \notin DOMAIN stores[i].workflows
     THEN /\ call' = [op |-> "get_status", inst |-> i, cls |-> stores[i].cls,
                      arg |-> [t |-> "id", id |-> id],
                      res |-> [kind |-> "ret", workflow_id |-> id, status |-> "not_found"]]
          /\ frames' = frames
     ELSE /\ frames' = [frames EXCEPT ![c] =
                          [op |-> "get_status", pc |-> "status", inst |-> i,
                           workflow_id |-> id]]
          /\ call' = call
  /\ UNCHANGED <<registry, stores, issued, streams, workflows_db>>

\* get_status: the read workflow["status"] of the returned dict
GetStatusReadStatus(c) ==
  LET fr == frames[c] IN
  /\ fr.op = "get_status" /\ fr.pc = "status"
  /\ frames' = [frames EXCEPT ![c] =
                  [op |-> "get_status", pc |-> "progress", inst |-> fr.inst,
                   workflow_id |-> fr.workflow_id,
                   status |-> stores[fr.inst].workflows[fr.workflow_id].status]]
  /\ UNCHANGED <<registry, stores, issued, call, streams, workflows_db>>

\* get_status: the read workflow["progress"], and the return
GetStatusReturn(c) ==
  LET fr == frames[c] IN
  /\ fr.op = "get_status" /\ fr.pc = "progress"
  /\ call' = CallOf(fr, [t |-> "id", id |-> fr.workflow_id],
                    [kind |-> "ret", workflow_id |-> fr.workflow_id,
                     status |-> fr.status,
                     progress |-> stores[fr.inst].workflows[fr.workflow_id].progress])
  /\ frames' = [frames EXCEPT ![c] = Idle]
  /\ UNCHANGED <<registry, stores, issued, streams, workflows_db>>

\* stop: `if workflow_id not in self.workflows: return False`
StopTest(c, i, id) ==
  /\ Live(i) /\ frames[c] = Idle
  /\ IF id \notin DOMAIN stores[i].workflows
     THEN /\ call' = [op |-> "stop", inst |-> i, cls |-> stores[i].cls,
                      arg |-> [t |-> "id", id |-> id],
                      res |-> [kind |-> "ret", value |-> FALSE]]
          /\ frames' = frames
     ELSE /\ frames' = [frames EXCEPT ![c] =
                          [op |-> "stop", pc |-> "set", inst |-> i, workflow_id |-> id]]
          /\ call' = call
  /\ UNCHANGED <<registry, stores, issued, streams, workflows_db>>

\* stop: self.workflows[workflow_id]["status"] = "stopped"; return True
StopSet(c) ==
  LET fr == frames[c] IN
  /\ fr.op = "stop" /\ fr.pc = "set"
  /\ stores' = [stores EXCEPT ![fr.inst].workflows[fr.workflow_id].status = "stopped"]
  /\ call' = CallOf(fr, [t |-> "id", id |-> fr.workflow_id],
                    [kind |-> "ret", value |-> TRUE])
  /\ frames' = [frames EXCEPT ![c] = Idle]
  /\ UNCHANGED <<registry, issued, streams, workflows_db>>

NextC ==
  \/ \E c \in Callers, i \in Instances : ExecuteCall(c, i, OwnConfig(stores[i].cls))
  \/ \E c \in Callers : ExecuteStore(c)
  \/ \E c \in Callers, i \in Instances, id \in RunIds : GetStatusTest(c, i, id)
  \/ \E c \in Callers : GetStatusReadStatus(c)
  \/ \E c \in Callers : GetStatusReturn(c)
  \/ \E c \in Callers, i \in Instances, id \in RunIds : StopTest(c, i, id)
  \/ \E c \in Callers : StopSet(c)

SpecC == InitS /\ [][NextC]_vars

---------------------------------------------------------------------------
(* The YAML endpoint: routers/yaml_validator.py. The text of a request is   *)
(* held as what yaml.safe_load makes of it: a syntax error or a document.   *)

YamlText(ok, doc) == [t |-> "yaml", ok |-> ok, doc |-> doc]

\* the mapping of a YAML document, absent keys left out
YamlMap(name, framework, agents, tasks) ==
  LET all == [k \in {"name", "framework", "agents", "tasks"} |->
                CASE k = "name" -> name
                  [] k = "framework" -> framework
                  [] k = "agents" -> agents
                  [] OTHER -> tasks]
  IN DictV([k \in {x \in DOMAIN all : all[x] # AbsentV} |-> all[k]])

\* agents and tasks written in YAML documents: complete ones, one that
\* lacks required fields, and a task of an agent that is not defined
YamlAgents == {CompleteAgent("a"), CompleteAgent("b"), ItemDict("name", StrV("a"), {"role"})}

YamlTasks == {CompleteTask("a"), CompleteTask("ghost"), ItemDict("agent", StrV("a"), {"name"})}

\* documents that are no mapping: empty text, a scalar, a sequence
YamlScalars == {NoneV, NumV, StrV("s"), ListV(<<>>)}

\* the ?framework= query parameter
QueryFrameworks == {"crewai", "langgraph", "unknown-framework"}

\* yaml.safe_load(request.yamlContent)
SafeLoad(text) ==
  IF ~text.ok THEN [kind |-> "raise", exc |-> "YAMLError"]
  ELSE [kind |-> "ret", value |-> text.doc]

\* if "framework" not in yaml_data: yaml_data["framework"] = framework
\* (None and numbers do not support `in`; a str or list does, and then does
\* not support the item assignment)
SetFramework(yaml_data, framework) ==
  IF ~IsDict(yaml_data) THEN [kind |-> "raise", exc |-> "TypeError"]
  ELSE IF "framework" \in DOMAIN yaml_data.d THEN [kind |-> "ret", value |-> yaml_data]
  ELSE [kind |-> "ret",
        value |-> DictV([k \in DOMAIN yaml_data.d \cup {"framework"} |->
                           IF k = "framework" THEN StrV(framework) ELSE yaml_data.d[k]])]

\* a value pydantic accepts for a field of type str
IsStrField(d, k) == k \in DOMAIN d /\ d[k].t = "str"

\* a value pydantic accepts as List[Agent] / List[Task]
IsModelList(d, k, required) ==
  /\ k \in DOMAIN d /\ IsList(d[k])
  /\ \A i \in 1..Len(d[k].l) :
       /\ IsDict(d[k].l[i])
       /\ \A j \in 1..Len(required) : IsStrField(d[k].l[i].d, required[j])

\* Workflow(**yaml_data): the declared fields are validated and kept, an
\* entry that is no field (framework) is ignored
WorkflowModel(yaml_data) ==
  IF /\ IsStrField(yaml_data.d, "name")
     /\ IsModelList(yaml_data.d, "agents", RequiredAgentFields)
     /\ IsModelList(yaml_data.d, "tasks", RequiredTaskFields)
  THEN [kind |-> "ret",
        value |-> [a \in WorkflowFields |->
                     IF a \in DOMAIN yaml_data.d THEN yaml_data.d[a] ELSE NoneV]]
  ELSE [kind |-> "raise", exc |-> "ValidationError"]

\* ValidateYAMLResponse(valid=..., errors=..., workflow=...)
ValidateYAMLResponse(valid, errors, workflow) ==
  Http(200, "none", <<>>) @@ [valid |-> valid, errors |-> errors, workflow |-> workflow]

YamlParsingError == [msg |-> "YAML parsing error"]

ValidationErrorOf(exc) == [msg |-> "Validation error", exc |-> exc]

FrameworkError == [msg |-> "Framework error"]

\* the inner try block: the adapter's checks of a constructed workflow
OrchestratorChecks(workflow) ==
  IF ~HasAttr(workflow, "framework")
  THEN \* workflow.framework: AttributeError is no ValueError, so the outer
       \* `except Exception` takes it and the response has no workflow
       ValidateYAMLResponse(FALSE, ListV(<<ValidationErrorOf("AttributeError")>>), NoneV)
  ELSE IF Lower(workflow["framework"].s) \notin DOMAIN registry
  THEN ValidateYAMLResponse(FALSE, ListV(<<FrameworkError>>), DictV(workflow))
  ELSE LET res == Validate(registry[Lower(workflow["framework"].s)],
                           ConfigOf(DictV(workflow)))
       IN IF res.kind = "raise"
          THEN ValidateYAMLResponse(FALSE, ListV(<<ValidationErrorOf(res.exc)>>), NoneV)
          ELSE IF ~res.valid
          THEN ValidateYAMLResponse(FALSE, res.errors, DictV(workflow))
          ELSE ValidateYAMLResponse(TRUE, NoneV, DictV(workflow))

\* the response of validate_yaml
YamlResponse(text, framework) ==
  LET loaded == SafeLoad(text) IN
  IF loaded.kind = "raise"
  THEN ValidateYAMLResponse(FALSE, ListV(<<YamlParsingError>>), NoneV)
  ELSE LET yaml_data == SetFramework(loaded.value, framework) IN
  IF yaml_data.kind = "raise"
  THEN ValidateYAMLResponse(FALSE, ListV(<<ValidationErrorOf(yaml_data.exc)>>), NoneV)
  ELSE LET workflow == WorkflowModel(yaml_data.value) IN
  IF workflow.kind = "raise"
  THEN ValidateYAMLResponse(FALSE, ListV(<<ValidationErrorOf(workflow.exc)>>), NoneV)
  ELSE OrchestratorChecks(workflow.value)

\* a request that has arrived at the endpoint
PendingYaml(text, framework) ==
  call = [op |-> "validate_yaml", inst |-> 0, cls |-> "none",
          arg |-> [text |-> text, framework |-> framework], res |-> Pending]

\* the requests: texts that fail to parse, documents that are no mapping,
\* and mappings with or without name and framework and with at most
\* MaxItems agents and tasks in all, or with `agents` missing or null
InitY ==
  /\ registry = StartupRegistry
  /\ stores = [i \in Instances |-> NoInstance]
  /\ issued = {}
  /\ streams = <<>>
  /\ workflows_db = NoRuns
  /\ frames = NoFrames
  /\ \E f \in QueryFrameworks :
       \/ \E doc \in YamlScalars : \E ok \in BOOLEAN : PendingYaml(YamlText(ok, doc), f)
       \/ \E name \in {AbsentV, StrV("W")} : \E fw \in BodyFrameworks :
            \E k \in 0..MaxItems : \E m \in 0..(MaxItems - k) :
              \E agents \in [1..k -> YamlAgents] : \E tasks \in [1..m -> YamlTasks] :
                PendingYaml(YamlText(TRUE, YamlMap(name, fw, ListV(agents), ListV(tasks))), f)
       \/ \E v \in {AbsentV, NoneV} :
            PendingYaml(YamlText(TRUE, YamlMap(StrV("W"), AbsentV, v, ListV(<<>>))), f)

\* POST /yaml/validate
ValidateYaml ==
  /\ call.op = "validate_yaml" /\ call.res = Pending
  /\ call' = [call EXCEPT !.res = YamlResponse(call.arg.text, call.arg.framework)]
  /\ UNCHANGED <<registry, stores, issued, streams, workflows_db, frames>>

NextY == ValidateYaml

SpecY == InitY /\ [][NextY]_vars

---------------------------------------------------------------------------
(* Properties *)

\* a validate call has finished (returned or raised)
VDone == call.op = "validate" /\ call.res # Pending

VCrew == VDone /\ call.cls = "CrewAIAdapter"

VGraph == VDone /\ call.cls = "LangGraphAdapter"

\* the configuration has a `workflow` key holding a mapping
HasDictWorkflow(config) ==
  "workflow" \in DOMAIN config.d /\ IsDict(config.d["workflow"])

\* the value of a key of the workflow mapping, AbsentV when it is left out
Coll(config, key) ==
  IF key \in DOMAIN config.d["workflow"].d THEN config.d["workflow"].d[key]
  ELSE AbsentV

\* the errors of a result as a sequence (empty for none and for a raise)
Errs(res) == IF res.kind = "ret" /\ IsList(res.errors) THEN res.errors.l ELSE <<>>

HasErr(res, e) == \E j \in 1..Len(Errs(res)) : Errs(res)[j] = e

\* C1: whenever validate of either adapter returns, isValid is true exactly
\* when errors is None and false exactly when errors is a non-empty list
C1_FlagMatchesErrors ==
  (VDone /\ call.res.kind = "ret") =>
     /\ call.res.valid <=> call.res.errors = NoneV
     /\ ~call.res.valid <=> (IsList(call.res.errors) /\ Len(call.res.errors.l) > 0)

C1_Witness ==
  /\ VCrew /\ call.res.kind = "ret"
  /\ call.res.valid /\ call.res.errors = NoneV
  /\ Len(Coll(call.arg, "tasks").l) >= 2

\* C2: validate never raises on a mapping: it always returns a pair
C2_NeverRaises == VDone => call.res.kind = "ret"

\* C3: a validate call leaves every adapter's run records, the registry and
\* the issued ids unchanged, and validating the same definition again with
\* the same adapter class returns the same result
C3_ValidateIsPure ==
  [][call'.op = "validate" =>
       /\ stores' = stores /\ registry' = registry /\ issued' = issued
       /\ (call.op = "validate" /\ call.cls = call'.cls /\ call.arg = call'.arg)
            => call'.res = call.res]_vars

C3_Witness ==
  /\ call.op = "validate" /\ call.res.kind = "ret" /\ ~call.res.valid
  /\ DOMAIN stores[call.inst].workflows # {}
  /\ \E i \in Instances : i # call.inst /\ DOMAIN stores[i].workflows # {}
  /\ "custom" \in DOMAIN registry

\* the condition of C4 on a configuration, item by item
CrewWellFormed(config) ==
  /\ HasDictWorkflow(config)
  /\ LET as == Coll(config, "agents")
         ts == Coll(config, "tasks")
     IN /\ IsList(as) /\ Len(as.l) > 0
        /\ \A i \in 1..Len(as.l) :
             IsDict(as.l[i])
             /\ \A j \in 1..Len(RequiredAgentFields) :
                  RequiredAgentFields[j] \in DOMAIN as.l[i].d
        /\ IsList(ts) /\ Len(ts.l) > 0
        /\ \A i \in 1..Len(ts.l) :
             IsDict(ts.l[i])
             /\ \A j \in 1..Len(RequiredTaskFields) :
                  RequiredTaskFields[j] \in DOMAIN ts.l[i].d
        /\ \A i \in 1..Len(ts.l) : \E k \in 1..Len(as.l) :
             as.l[k].d["name"] = ts.l[i].d["agent"]

\* C4: the agent/task adapter returns (true, none) exactly on well-formed
\* definitions and returns invalid on every other one
C4_ValidIffWellFormed ==
  VCrew =>
    IF CrewWellFormed(call.arg) THEN call.res = Ret(TRUE, NoneV)
    ELSE call.res.kind = "ret" /\ ~call.res.valid

\* C4, on the definitions on which validate returns
C4_ValidIffWellFormedWhenReturned ==
  (VCrew /\ call.res.kind = "ret") =>
    (call.res = Ret(TRUE, NoneV) <=> CrewWellFormed(call.arg))

\* number of errors of a result that satisfy P
CountErrs(res, P(_)) == Len(SelectSeq(Errs(res), P))

RECURSIVE SumSeq(_)
SumSeq(ns) == IF ns = <<>> THEN 0 ELSE Head(ns) + SumSeq(Tail(ns))

\* number of the required fields that a mapping item lacks
MissingCount(item, required) ==
  Len(SelectSeq(required, LAMBDA f : f \notin DOMAIN item.d))

\* the errors the `tasks` chain and the per-task loop owe for a workflow
\* without declared agents: one shape error for a missing, mistyped or empty
\* `tasks`, one error per non-mapping task, one per missing task field and
\* one reference error per task that has an `agent` field
TaskErrorsOwedWithoutAgents(ts) ==
  IF ~IsList(ts) THEN 1
  ELSE IF Len(ts.l) = 0 THEN 1
  ELSE SumSeq([i \in 1..Len(ts.l) |->
                 IF ~IsDict(ts.l[i]) THEN 1
                 ELSE MissingCount(ts.l[i], RequiredTaskFields)
                      + (IF "agent" \in DOMAIN ts.l[i].d THEN 1 ELSE 0)])

\* the workflow is a mapping without the key
LacksKey(config, key) == HasDictWorkflow(config) /\ Coll(config, key) = AbsentV

AllDicts(lv) == \A i \in 1..Len(lv.l) : IsDict(lv.l[i])

\* every item of the list value is a mapping with all the required fields
AllComplete(lv, required) ==
  \A i \in 1..Len(lv.l) :
    IsDict(lv.l[i]) /\ \A j \in 1..Len(required) : required[j] \in DOMAIN lv.l[i].d

\* some mapping of the list value has the key `field` holding v
Declared(lv, field, v) ==
  \E k \in 1..Len(lv.l) :
    IsDict(lv.l[k]) /\ field \in DOMAIN lv.l[k].d /\ lv.l[k].d[field] = v

\* an unknown-reference error is recorded for item i (0-based) and role
RefErrAt(res, kind, i, role) ==
  \E j \in 1..Len(Errs(res)) :
    LET e == Errs(res)[j]
    IN e.msg = "UnknownRef" /\ e.kind = kind /\ e.i = i /\ e.role = role

\* the definition with one complete agent named `name` and the given tasks
OneAgentConfig(name, ts) ==
  ConfigOf(WorkflowDict("agents", ListV(<<ItemDict("name", name,
                                           {"role", "goal", "backstory", "model"})>>),
                        "tasks", ts))

\* C6: with `agents` and `tasks` lists, the unknown-agent error is recorded
\* exactly for the tasks whose `agent` value is the `name` of no agent mapping,
\* it names the value and makes the definition invalid; and when the single
\* complete agent is renamed to the value all complete tasks refer to, the
\* definition becomes valid
C6_ReferenceIntegrity ==
  (VCrew /\ HasDictWorkflow(call.arg) /\ IsList(Coll(call.arg, "agents"))
         /\ IsList(Coll(call.arg, "tasks"))) =>
     LET as == Coll(call.arg, "agents")
         ts == Coll(call.arg, "tasks")
     IN /\ call.res.kind = "ret"
        /\ \A i \in 1..Len(ts.l) : IsDict(ts.l[i]) =>
             LET unresolved == "agent" \in DOMAIN ts.l[i].d
                               /\ ~Declared(as, "name", ts.l[i].d["agent"])
             IN /\ RefErrAt(call.res, "Task", i - 1, "agent") <=> unresolved
                /\ unresolved =>
                     /\ ~call.res.valid
                     /\ HasErr(call.res, ERef("Task", i - 1, "agent", ts.l[i].d["agent"]))
        /\ (/\ Len(as.l) = 1 /\ AllComplete(as, RequiredAgentFields)
            /\ Len(ts.l) > 0 /\ AllComplete(ts, RequiredTaskFields)
            /\ \A i \in 1..Len(ts.l) : ts.l[i].d["agent"] = ts.l[1].d["agent"])
           => CrewAIValidate(OneAgentConfig(ts.l[1].d["agent"], ts)) = Ret(TRUE, NoneV)

\* the value is among a.get("name") of the agent mappings: it is the name of
\* one, or it is None and one has no `name` key
ResolvesByGetName(as, v) ==
  \/ Declared(as, "name", v)
  \/ v = NoneV /\ \E k \in 1..Len(as.l) : IsDict(as.l[k]) /\ "name" \notin DOMAIN as.l[k].d

\* the code's rule, for comparison: the error is recorded exactly when the
\* value is not among a.get("name") of the agent mappings, a missing name
\* counting as None
C6_ReferenceByGetName ==
  (VCrew /\ HasDictWorkflow(call.arg) /\ IsList(Coll(call.arg, "agents"))
         /\ IsList(Coll(call.arg, "tasks"))) =>
     LET as == Coll(call.arg, "agents")
         ts == Coll(call.arg, "tasks")
     IN \A i \in 1..Len(ts.l) : IsDict(ts.l[i]) =>
          (RefErrAt(call.res, "Task", i - 1, "agent") <=>
             /\ "agent" \in DOMAIN ts.l[i].d
             /\ ~ResolvesByGetName(as, ts.l[i].d["agent"]))

\* C7: with `agents` and `tasks` lists of mappings lacking N required fields
\* in all, every missing field has its own error at the item's position, so
\* there are at least N errors, and there is exactly one more error for each
\* task whose present `agent` value is the name of no declared agent
C7_Accumulation ==
  (VCrew /\ HasDictWorkflow(call.arg)
         /\ IsList(Coll(call.arg, "agents")) /\ AllDicts(Coll(call.arg, "agents"))
         /\ IsList(Coll(call.arg, "tasks")) /\ AllDicts(Coll(call.arg, "tasks"))) =>
     LET as == Coll(call.arg, "agents")
         ts == Coll(call.arg, "tasks")
         n == SumSeq([i \in 1..Len(as.l) |-> MissingCount(as.l[i], RequiredAgentFields)])
              + SumSeq([i \in 1..Len(ts.l) |-> MissingCount(ts.l[i], RequiredTaskFields)])
         u == SumSeq([i \in 1..Len(ts.l) |->
                        IF "agent" \in DOMAIN ts.l[i].d
                           /\ ~Declared(as, "name", ts.l[i].d["agent"])
                        THEN 1 ELSE 0])
     IN /\ call.res.kind = "ret"
        /\ \A i \in 1..Len(as.l) : \A j \in 1..Len(RequiredAgentFields) :
             RequiredAgentFields[j] \notin DOMAIN as.l[i].d
               => HasErr(call.res, EField("Agent", i - 1, RequiredAgentFields[j]))
        /\ \A i \in 1..Len(ts.l) : \A j \in 1..Len(RequiredTaskFields) :
             RequiredTaskFields[j] \notin DOMAIN ts.l[i].d
               => HasErr(call.res, EField("Task", i - 1, RequiredTaskFields[j]))
        /\ CountErrs(call.res, LAMBDA e : e.msg = "ItemMissingField") = n
        /\ CountErrs(call.res, LAMBDA e : e.msg = "UnknownRef") = u
        /\ Len(Errs(call.res)) >= n + u

\* C7 with the reference errors counted the way the code resolves them
C7_AccumulationByGetName ==
  (VCrew /\ HasDictWorkflow(call.arg)
         /\ IsList(Coll(call.arg, "agents")) /\ AllDicts(Coll(call.arg, "agents"))
         /\ IsList(Coll(call.arg, "tasks")) /\ AllDicts(Coll(call.arg, "tasks"))) =>
     LET as == Coll(call.arg, "agents")
         ts == Coll(call.arg, "tasks")
         n == SumSeq([i \in 1..Len(as.l) |-> MissingCount(as.l[i], RequiredAgentFields)])
              + SumSeq([i \in 1..Len(ts.l) |-> MissingCount(ts.l[i], RequiredTaskFields)])
         u == SumSeq([i \in 1..Len(ts.l) |->
                        IF "agent" \in DOMAIN ts.l[i].d
                           /\ ~ResolvesByGetName(as, ts.l[i].d["agent"])
                        THEN 1 ELSE 0])
     IN /\ call.res.kind = "ret"
        /\ CountErrs(call.res, LAMBDA e : e.msg = "ItemMissingField") = n
        /\ CountErrs(call.res, LAMBDA e : e.msg = "UnknownRef") = u
        /\ Len(Errs(call.res)) >= n + u

\* the terminal sentinel of test_langgraph_validation
EndSentinel == StrV("END")

\* C8: with complete nodes and edges whose source is a declared node id, an
\* edge target that is the sentinel END or a declared node id is accepted,
\* and any other target is an error naming it; the definition of
\* test_langgraph_validation is valid
C8_EndTargetAccepted ==
  (VGraph /\ HasDictWorkflow(call.arg)
          /\ IsList(Coll(call.arg, "nodes")) /\ Len(Coll(call.arg, "nodes").l) > 0
          /\ AllComplete(Coll(call.arg, "nodes"), RequiredNodeFields)
          /\ IsList(Coll(call.arg, "edges"))
          /\ AllComplete(Coll(call.arg, "edges"), RequiredEdgeFields)
          /\ \A i \in 1..Len(Coll(call.arg, "edges").l) :
               Declared(Coll(call.arg, "nodes"), "id",
                        Coll(call.arg, "edges").l[i].d["source"])) =>
     LET ns == Coll(call.arg, "nodes")
         es == Coll(call.arg, "edges")
         ok(i) == es.l[i].d["target"] = EndSentinel
                  \/ Declared(ns, "id", es.l[i].d["target"])
     IN /\ call.res.kind = "ret"
        /\ call.res.valid <=> \A i \in 1..Len(es.l) : ok(i)
        /\ \A i \in 1..Len(es.l) :
             ~ok(i) => HasErr(call.res, ERef("Edge", i - 1, "target", es.l[i].d["target"]))
        /\ call.arg = EndEdgeGraphConfig => call.res = Ret(TRUE, NoneV)

\* the errors the `edges` chain and the per-edge loop owe for a workflow
\* without declared nodes: one shape error for a missing or mistyped `edges`,
\* one error per non-mapping edge, one per missing edge field and one
\* reference error per `source` and per `target` that is present
EdgeErrorsOwedWithoutNodes(es) ==
  IF ~IsList(es) THEN 1
  ELSE SumSeq([i \in 1..Len(es.l) |->
                 IF ~IsDict(es.l[i]) THEN 1
                 ELSE MissingCount(es.l[i], RequiredEdgeFields)
                      + (IF "source" \in DOMAIN es.l[i].d THEN 1 ELSE 0)
                      + (IF "target" \in DOMAIN es.l[i].d THEN 1 ELSE 0)])

C10_NoEdgeRequired ==
  (VGraph /\ HasDictWorkflow(call.arg)) =>
     LET ns == Coll(call.arg, "nodes")
         es == Coll(call.arg, "edges")
     IN /\ (/\ IsList(ns) /\ Len(ns.l) > 0 /\ AllComplete(ns, RequiredNodeFields)
            /\ es = ListV(<<>>))
           => call.res = Ret(TRUE, NoneV)
        /\ ns = ListV(<<>>)
           => /\ call.res.kind = "ret" /\ ~call.res.valid
              /\ HasErr(call.res, EEmpty("nodes"))

C10_Witness ==
  /\ VGraph /\ HasDictWorkflow(call.arg)
  /\ IsList(Coll(call.arg, "nodes")) /\ Len(Coll(call.arg, "nodes").l) >= 2
  /\ AllComplete(Coll(call.arg, "nodes"), RequiredNodeFields)
  /\ Coll(call.arg, "edges") = ListV(<<>>)
  /\ call.res = Ret(TRUE, NoneV)

---------------------------------------------------------------------------
(* Run handles of one adapter instance *)

\* instance i holds a record for run id
Known(i, id) == Live(i) /\ id \in DOMAIN stores[i].workflows

\* the same, after the step
KnownAfter(i, id) == id \in DOMAIN stores'[i].workflows

\* C11: execute returns an id not issued before with status "started"; a
\* get_status of that id right after it returns "running" and progress 0;
\* stop of a stored run returns true and leaves it "stopped"; a stopped run
\* stays stored and stopped, and get_status reports it as "stopped"
C11_RunLifecycle ==
  [][/\ call'.op = "execute" =>
          /\ call'.res.status = "started"
          /\ call'.res.workflow_id \notin issued
          /\ KnownAfter(call'.inst, call'.res.workflow_id)
     /\ (call.op = "execute" /\ call'.op = "get_status"
           /\ call'.inst = call.inst /\ call'.arg.id = call.res.workflow_id) =>
          /\ call'.res.status = "running"
          /\ call'.res.progress = 0
     /\ (call'.op = "stop" /\ Known(call'.inst, call'.arg.id)) =>
          /\ call'.res.value = TRUE
          /\ KnownAfter(call'.inst, call'.arg.id)
          /\ stores'[call'.inst].workflows[call'.arg.id].status = "stopped"
     /\ \A i \in Instances : \A id \in RunIds :
          (Known(i, id) /\ stores[i].workflows[id].status = "stopped") =>
             /\ KnownAfter(i, id)
             /\ stores'[i].workflows[id].status = "stopped"
             /\ (call'.op = "get_status" /\ call'.inst = i /\ call'.arg.id = id)
                  => call'.res.status = "stopped"
    ]_vars

\* get_status has found the record of a run after its stop
C11_Witness ==
  /\ call.op = "get_status"
  /\ Known(call.inst, call.arg.id)
  /\ call.res.status = "stopped"
  /\ stores[call.inst].workflows[call.arg.id].status = "stopped"

\* C12: get_status and stop of a run id the instance holds no record for
\* return (status "not_found", respectively false) instead of raising, and
\* leave the run records of every instance as they were
C12_UnknownRunSafety ==
  [][(call'.op \in {"get_status", "stop"} /\ ~Known(call'.inst, call'.arg.id)) =>
        /\ call'.res.kind = "ret"
        /\ call'.op = "get_status" => call'.res.status = "not_found"
        /\ call'.op = "stop" => call'.res.value = FALSE
        /\ stores' = stores
    ]_vars

\* an instance that holds a record has been asked about another id: stop
\* returned false
C12_Witness ==
  /\ call.op = "stop"
  /\ ~Known(call.inst, call.arg.id)
  /\ call.res.value = FALSE
  /\ \E other \in RunIds : Known(call.inst, other)

\* C13: the result of stop is true exactly when the instance holds a record
\* for the id, whatever the record's status (also when it is "stopped"
\* already); a stored run is "stopped" after every stop, an unknown id
\* stays unknown, and a stop repeated right away returns what the first did
C13_StopIdempotent ==
  [][call'.op = "stop" =>
        /\ call'.res.value = Known(call'.inst, call'.arg.id)
        /\ Known(call'.inst, call'.arg.id) =>
             /\ KnownAfter(call'.inst, call'.arg.id)
             /\ stores'[call'.inst].workflows[call'.arg.id].status = "stopped"
        /\ ~Known(call'.inst, call'.arg.id) => ~KnownAfter(call'.inst, call'.arg.id)
        /\ (call.op = "stop" /\ call.inst = call'.inst /\ call.arg = call'.arg) =>
             /\ call'.res = call.res
             /\ stores' = stores
    ]_vars

\* stop has returned true for a run that is stored as "stopped", while the
\* same instance holds a second run that is still running
C13_Witness ==
  /\ call.op = "stop"
  /\ call.res.value = TRUE
  /\ Known(call.inst, call.arg.id)
  /\ stores[call.inst].workflows[call.arg.id].status = "stopped"
  /\ \E other \in RunIds :
       Known(call.inst, other) /\ stores[call.inst].workflows[other].status = "running"

\* C14: a run stored by instance A is unknown to every other instance B,
\* before and after every step: B.get_status of its id returns "not_found",
\* B.stop of its id returns false, and the step leaves A's record unchanged
C14_RunIsolation ==
  [][\A a \in Instances : \A b \in Instances \ {a} : \A id \in RunIds :
       /\ (Live(a) /\ KnownAfter(a, id)) => ~KnownAfter(b, id)
       /\ (Known(a, id) /\ call'.inst = b /\ call'.op \in {"get_status", "stop"}
             /\ call'.arg.id = id) =>
            /\ call'.op = "get_status" => call'.res.status = "not_found"
            /\ call'.op = "stop" => call'.res.value = FALSE
            /\ KnownAfter(a, id)
            /\ stores'[a].workflows[id] = stores[a].workflows[id]
    ]_vars

\* instance B has been asked to stop a run that another instance A of the
\* same class stores as running: it returned false
C14_Witness ==
  /\ call.op = "stop"
  /\ call.res.value = FALSE
  /\ \E a \in Instances \ {call.inst} :
       /\ stores[a].cls = stores[call.inst].cls
       /\ Known(a, call.arg.id)
       /\ stores[a].workflows[call.arg.id].status = "running"

---------------------------------------------------------------------------
(* Streams *)

RECURSIVE NonDecreasing(_)
\* the progress values of a sequence of updates never decrease
NonDecreasing(out) ==
  IF Len(out) < 2 THEN TRUE
  ELSE out[1].progress <= out[2].progress /\ NonDecreasing(Tail(out))

\* C15: the updates a generator of stream has yielded are, in this order,
\* ("started", 0) and ("completed", 100) for one run id, or a prefix of the
\* two; progress never decreases; a generator that has ended has yielded
\* both, and none follows the terminal update
C15_StreamSequence ==
  \A g \in 1..Len(streams) :
    LET out == streams[g].out IN
    /\ Len(out) <= 2
    /\ Len(out) >= 1 => (out[1].status = "started" /\ out[1].progress = 0)
    /\ Len(out) >= 2 =>
         /\ out[2].status = "completed" /\ out[2].progress = 100
         /\ out[2].workflow_id = out[1].workflow_id
    /\ NonDecreasing(out)
    /\ streams[g].pc >= 2 => Len(out) = 2
    /\ Len(out) = streams[g].pc \/ (streams[g].pc = 3 /\ Len(out) = 2)

\* a generator has been run to its end and asked again, while a second
\* generator of the same adapter is between its two updates
C15_Witness ==
  /\ call.op = "anext" /\ call.res = StopAsyncIteration
  /\ \E g \in 1..Len(streams) : \E h \in 1..Len(streams) :
       /\ streams[g].pc = 3 /\ Len(streams[g].out) = 2
       /\ streams[h].inst = streams[g].inst
       /\ streams[h].pc = 1

---------------------------------------------------------------------------
(* Frame conditions of execute and stop *)

\* C16: an execute step returns an id issued to no call before, adds one
\* record under it, holding the configuration of the call with status
\* "running" and progress 0, and changes neither an earlier record of the
\* instance nor another instance; a stop step changes at most the status of
\* the record with its id
C16_IndependentHandles ==
  [][/\ call'.op = "execute" =>
          LET i == call'.inst
              id == call'.res.workflow_id
          IN /\ id \notin issued
             /\ id \notin DOMAIN stores[i].workflows
             /\ DOMAIN stores'[i].workflows = DOMAIN stores[i].workflows \cup {id}
             /\ stores'[i].workflows[id] =
                  [config |-> call'.arg, status |-> "running", progress |-> 0]
             /\ \A r \in DOMAIN stores[i].workflows :
                  stores'[i].workflows[r] = stores[i].workflows[r]
             /\ \A j \in Instances \ {i} : stores'[j] = stores[j]
     /\ call'.op = "stop" =>
          LET i == call'.inst
              id == call'.arg.id
          IN /\ DOMAIN stores'[i].workflows = DOMAIN stores[i].workflows
             /\ \A r \in DOMAIN stores[i].workflows :
                  IF r = id
                  THEN /\ stores'[i].workflows[r].config = stores[i].workflows[r].config
                       /\ stores'[i].workflows[r].progress = stores[i].workflows[r].progress
                  ELSE stores'[i].workflows[r] = stores[i].workflows[r]
             /\ \A j \in Instances \ {i} : stores'[j] = stores[j]
    ]_vars

\* execute has returned on an instance that already held a stopped run of
\* another definition
C16_Witness ==
  /\ call.op = "execute"
  /\ \E r \in DOMAIN stores[call.inst].workflows :
       /\ r # call.res.workflow_id
       /\ stores[call.inst].workflows[r].status = "stopped"
       /\ stores[call.inst].workflows[r].config # call.arg
       /\ stores[call.inst].workflows[call.res.workflow_id].config = call.arg

---------------------------------------------------------------------------
(* The registry *)

\* the names of the model grouped by spelling: two names of one group
\* differ only in letter case
Spellings ==
  {{"crewai", "CrewAI", "CREWAI"}, {"langgraph", "LangGraph"},
   {"custom", "Custom"}, {"unknown-framework"}}

SameLetters(m, n) == \E group \in Spellings : m \in group /\ n \in group

\* the names without an upper-case letter
LowerCaseNames == {"crewai", "langgraph", "custom", "unknown-framework"}

\* the registry keys, before and after the step, that spell name
KeysFor(name) == {k \in DOMAIN registry : SameLetters(k, name)}

KeysAfterFor(name) == {k \in DOMAIN registry' : SameLetters(k, name)}

\* C17: after every step the registry holds lower-case names only, at most
\* one per spelling group; register(n, C) makes the key spelling n map to C;
\* get_orchestrator(m) returns a new instance of the class registered under
\* the key that differs from m in letter case at most; the list of
\* supported frameworks holds lower-case names only
C17_CaseInsensitive ==
  [][/\ DOMAIN registry' \subseteq LowerCaseNames
     /\ \A m \in FactoryNames : Cardinality(KeysAfterFor(m)) <= 1
     /\ call'.op = "register" =>
          \A m \in FactoryNames : SameLetters(m, call'.arg.s) =>
             \E k \in KeysAfterFor(m) : registry'[k] = call'.cls
     /\ (call'.op = "get_orchestrator" /\ KeysFor(call'.arg.s) # {}) =>
          /\ call'.res.kind = "ret"
          /\ \E k \in KeysFor(call'.arg.s) :
               /\ call'.cls = registry[k]
               /\ stores'[call'.inst] = NewAdapter(registry[k])
     /\ call'.op = "get_supported_frameworks" =>
          call'.res.names \subseteq LowerCaseNames
    ]_vars

\* after a registration of LangGraphAdapter under a spelling of "crewai",
\* get_orchestrator("CREWAI") has returned a LangGraphAdapter
C17_Witness ==
  /\ call.op = "get_orchestrator"
  /\ call.arg = StrV("CREWAI")
  /\ call.res.kind = "ret"
  /\ call.cls = "LangGraphAdapter"
  /\ stores[call.inst].cls = "LangGraphAdapter"

\* C18: get_orchestrator of a name no registry key spells raises ValueError;
\* the supported names it lists are the registry keys, which hold a spelling
\* of every name registered at startup or by a register step, and not the
\* requested name; the call constructs no adapter and leaves the registry
\* as it was
C18_UnsupportedFramework ==
  [][/\ DOMAIN registry \subseteq DOMAIN registry'
     /\ DOMAIN StartupRegistry \subseteq DOMAIN registry
     /\ call'.op = "register" => KeysAfterFor(call'.arg.s) # {}
     /\ (call'.op = "get_orchestrator" /\ KeysFor(call'.arg.s) = {}) =>
          /\ call'.res.kind = "raise"
          /\ call'.res.exc = "ValueError"
          /\ call'.res.supported = DOMAIN registry
          /\ call'.arg.s \notin call'.res.supported
          /\ \A k \in call'.res.supported : ~SameLetters(k, call'.arg.s)
          /\ call'.inst = 0
          /\ stores' = stores
          /\ registry' = registry
    ]_vars

\* get_orchestrator("unknown-framework") has raised after "Custom" was
\* registered: the list holds "custom" beside the two startup names
C18_Witness ==
  /\ call.op = "get_orchestrator"
  /\ call.arg = StrV("unknown-framework")
  /\ call.res.kind = "raise"
  /\ call.res.supported = {"crewai", "langgraph", "custom"}

\* C19: register raises nothing and makes the key spelling its name map to
\* its class, also when the name was registered before under any spelling;
\* that name keeps one key, every other key keeps its class, and a
\* get_orchestrator of the name right after it returns the new class; the
\* supported frameworks are the keys: the startup names and a spelling of
\* every name registered since
C19_LastWriterWins ==
  [][/\ call'.op = "register" =>
          /\ call'.res = NoneV
          /\ Cardinality(KeysAfterFor(call'.arg.s)) = 1
          /\ \A k \in KeysAfterFor(call'.arg.s) : registry'[k] = call'.cls
          /\ DOMAIN registry' = DOMAIN registry \cup KeysAfterFor(call'.arg.s)
          /\ \A k \in DOMAIN registry \ KeysFor(call'.arg.s) : registry'[k] = registry[k]
          /\ stores' = stores
     /\ call'.op # "register" => registry' = registry
     /\ (call.op = "register" /\ call'.op = "get_orchestrator"
           /\ SameLetters(call.arg.s, call'.arg.s)) =>
          /\ call'.res.kind = "ret"
          /\ call'.cls = call.cls
          /\ stores'[call'.inst] = NewAdapter(call.cls)
     /\ call'.op = "get_supported_frameworks" =>
          call'.res.names = DOMAIN registry
    ]_vars

\* "CrewAI" has been registered again, with LangGraphAdapter, while an
\* adapter resolved under the first registration is alive and "custom" holds
\* its own class
C19_Witness ==
  /\ call.op = "register"
  /\ call.arg = StrV("CrewAI")
  /\ call.cls = "LangGraphAdapter"
  /\ registry["crewai"] = "LangGraphAdapter"
  /\ "custom" \in DOMAIN registry /\ registry["custom"] = "CrewAIAdapter"
  /\ \E i \in Instances : stores[i].cls = "CrewAIAdapter"

---------------------------------------------------------------------------
(* Starting a run over HTTP *)

\* the class registered for the framework a request body names
SelectedClass(body) ==
  LET keys == IF body.framework = AbsentV THEN {} ELSE KeysFor(body.framework.s)
  IN IF keys = {} THEN "none" ELSE registry[CHOOSE k \in keys : TRUE]

\* the adapter of that class rejects the definition of the body
Rejects(cls, body) ==
  LET res == Validate(cls, RequestConfig(StartWorkflowRequest(body)))
  IN res.kind # "ret" \/ ~res.valid

\* C20: a start request that names a registered framework has the selected
\* adapter's validate called first; execute is called only after a validate
\* that accepted the definition; a definition the adapter rejects produces
\* no run id and no run record
C20_ValidateBeforeExecute ==
  [][call'.op = "start_workflow" =>
       LET body == call'.arg
           cls == SelectedClass(body)
           invoked == call'.res.invoked
       IN /\ cls # "none" => (Len(invoked) >= 1 /\ invoked[1] = "validate")
          /\ \A k \in 1..Len(invoked) :
               invoked[k] = "execute" =>
                  /\ k > 1 /\ invoked[1] = "validate"
                  /\ cls # "none" /\ ~Rejects(cls, body)
          /\ (cls # "none" /\ Rejects(cls, body)) =>
               /\ stores' = stores
               /\ issued' = issued
               /\ workflows_db' = workflows_db
    ]_vars

---------------------------------------------------------------------------
(* Identifiers and order of errors in validate *)

\* the field that identifies an item of the first collection of a class
IdField(cls) == IF cls = "CrewAIAdapter" THEN "name" ELSE "id"

\* C22: a definition validate accepts has pairwise distinct agent names
\* (CrewAIAdapter), respectively pairwise distinct node ids (LangGraphAdapter)
C22_IdentifierUniqueness ==
  (VDone /\ call.res.kind = "ret" /\ call.res.valid) =>
     LET items == Coll(call.arg, Key1(call.cls)).l
         field == IdField(call.cls)
     IN \A i \in 1..Len(items) : \A j \in 1..Len(items) :
          i < j => items[i].d[field] # items[j].d[field]

\* the position of a field among the fields the code requires, in the order
\* the claim gives for them
FieldPos(kind, field) ==
  IF kind = "Agent"
  THEN CASE field = "name" -> 1 [] field = "role" -> 2 [] field = "goal" -> 3
         [] field = "backstory" -> 4 [] OTHER -> 5
  ELSE CASE field = "name" -> 1 [] field = "description" -> 2
         [] field = "expectedOutput" -> 3 [] OTHER -> 4

\* the place of an error in discovery order: the shape error of `agents`,
\* that of `tasks`, the errors of the agents by position, those of the tasks
\* by position; within an item the fields in order, then the reference
Place(e) ==
  CASE e.msg \in {"Missing", "NotList", "Empty"} ->
         IF e.key = "agents" THEN 0 ELSE 1
    [] e.msg = "ItemNotDict" ->
         (IF e.kind = "Agent" THEN 1000 ELSE 2000) + 10 * e.i
    [] e.msg = "ItemMissingField" ->
         (IF e.kind = "Agent" THEN 1000 ELSE 2000) + 10 * e.i + FieldPos(e.kind, e.field)
    [] e.msg = "UnknownRef" -> 2000 + 10 * e.i + 9
    [] OTHER -> 0

\* C27: the errors CrewAIAdapter.validate returns are in discovery order: each
\* error of the list has its place after the place of the one before it
C27_DiscoveryOrder ==
  (VCrew /\ call.res.kind = "ret") =>
     \A j \in 1..(Len(Errs(call.res)) - 1) :
        Place(Errs(call.res)[j]) < Place(Errs(call.res)[j + 1])

\* a list that starts with a shape error and holds, for one task, a
\* missing-field error directly followed by the unknown-agent error
C27_Witness ==
  /\ VCrew /\ call.res.kind = "ret"
  /\ Len(Errs(call.res)) >= 3
  /\ Errs(call.res)[1].msg \in {"Missing", "NotList", "Empty"}
  /\ \E j \in 2..(Len(Errs(call.res)) - 1) :
       /\ Errs(call.res)[j].msg = "ItemMissingField"
       /\ Errs(call.res)[j].kind = "Task"
       /\ Errs(call.res)[j + 1].msg = "UnknownRef"
       /\ Errs(call.res)[j + 1].i = Errs(call.res)[j].i

\* the collection keys of a class, the kind its item errors name, the fields
\* it requires of an item, and whether the collection may be empty
CollKey(cls, n) == IF n = 1 THEN Key1(cls) ELSE Key2(cls)

ItemKind(cls, n) ==
  IF cls = "CrewAIAdapter" THEN (IF n = 1 THEN "Agent" ELSE "Task")
  ELSE (IF n = 1 THEN "Node" ELSE "Edge")

RequiredOf(cls, n) ==
  IF cls = "CrewAIAdapter"
  THEN (IF n = 1 THEN RequiredAgentFields ELSE RequiredTaskFields)
  ELSE (IF n = 1 THEN RequiredNodeFields ELSE RequiredEdgeFields)

MustBeNonEmpty(cls, n) == ~(cls = "LangGraphAdapter" /\ n = 2)

\* the shape error owed for the value v of a collection key
ShapeOwed(v, key, nonEmpty) ==
  IF v = AbsentV THEN {EMissing(key)}
  ELSE IF ~IsList(v) THEN {ENotList(key)}
  ELSE IF nonEmpty /\ Len(v.l) = 0 THEN {EEmpty(key)}
  ELSE {}

\* C29: a configuration without the `workflow` key gets exactly the one
\* error "Missing 'workflow' field"; with a `workflow` mapping no check is
\* skipped when validate returns: both collections get their shape error and
\* every item of either list gets its not-a-mapping or missing-field errors
C29_OnlyEarlyReturn ==
  /\ (VDone /\ "workflow" \notin DOMAIN call.arg.d) =>
        call.res = Ret(FALSE, ListV(<<[msg |-> "MissingWorkflow"]>>))
  /\ (VDone /\ HasDictWorkflow(call.arg) /\ call.res.kind = "ret") =>
        /\ ~HasErr(call.res, [msg |-> "MissingWorkflow"])
        /\ \A n \in {1, 2} :
             LET key == CollKey(call.cls, n)
                 v == Coll(call.arg, key)
                 kind == ItemKind(call.cls, n)
                 required == RequiredOf(call.cls, n)
             IN /\ \A e \in ShapeOwed(v, key, MustBeNonEmpty(call.cls, n)) :
                     HasErr(call.res, e)
                /\ IsList(v) => \A i \in 1..Len(v.l) :
                     IF ~IsDict(v.l[i]) THEN HasErr(call.res, ENotDict(kind, i - 1))
                     ELSE \A j \in 1..Len(required) :
                            required[j] \notin DOMAIN v.l[i].d =>
                               HasErr(call.res, EField(kind, i - 1, required[j]))

\* validate has returned for the configuration without a `workflow` key
C29_Witness ==
  /\ VDone
  /\ call.arg = EmptyDict
  /\ call.res.kind = "ret" /\ ~call.res.valid
  /\ Len(Errs(call.res)) = 1

---------------------------------------------------------------------------
(* stream and the run records *)

\* the generators that have yielded both updates for run id of instance i
Finished(i, id) ==
  {g \in 1..Len(streams) :
     streams[g].inst = i /\ streams[g].id = id /\ Len(streams[g].out) = 2}

\* C30: a step that creates a generator leaves every store as it is; the
\* step that takes the first update adds exactly one record to the store of
\* the generator's instance, under a new id, and that id is carried by the
\* update and by the one after it; no other step of a generator touches a
\* store; for a run whose generator has yielded ("completed", 100)
\* get_status reports what the record holds, "running" with progress 0
\* unless stop was called, and stop returns true and sets "stopped"
C30_LazyStream ==
  [][ /\ Len(streams') > Len(streams) =>
           /\ stores' = stores /\ issued' = issued
           /\ streams'[Len(streams')].out = <<>>
      /\ \A g \in 1..Len(streams) :
           (Len(streams') = Len(streams) /\ call'.op = "anext" /\ call'.arg.gen = g
              /\ streams'[g] # streams[g]) =>
             LET gen == streams[g]
                 i == gen.inst
             IN IF gen.pc = 0
                THEN LET id == call'.res.update.workflow_id IN
                     /\ call'.res.kind = "yield"
                     /\ id \notin DOMAIN stores[i].workflows
                     /\ DOMAIN stores'[i].workflows = DOMAIN stores[i].workflows \cup {id}
                     /\ stores'[i].workflows[id].status = "running"
                     /\ stores'[i].workflows[id].progress = 0
                     /\ \A r \in DOMAIN stores[i].workflows :
                          stores'[i].workflows[r] = stores[i].workflows[r]
                     /\ \A j \in Instances \ {i} : stores'[j] = stores[j]
                     /\ streams'[g].id = id
                ELSE /\ stores' = stores /\ issued' = issued
                     /\ call'.res.kind = "yield" =>
                          /\ call'.res.update.workflow_id = gen.id
                          /\ gen.out[1].workflow_id = gen.id
      /\ \A i \in Instances : \A id \in RunIds :
           Finished(i, id) # {} =>
             /\ id \in DOMAIN stores[i].workflows
             /\ stores[i].workflows[id].status \in {"running", "stopped"}
             /\ stores[i].workflows[id].progress = 0
             /\ (call'.op = "get_status" /\ call'.inst = i /\ call'.arg.id = id
                   /\ call' # call) =>
                  /\ call'.res.status = stores[i].workflows[id].status
                  /\ call'.res.progress = 0
             /\ (call'.op = "stop" /\ call'.inst = i /\ call'.arg.id = id
                   /\ call' # call) =>
                  /\ call'.res.value = TRUE
                  /\ stores'[i].workflows[id].status = "stopped"
    ]_vars

\* get_status has reported "running" with progress 0 for a run whose
\* generator has yielded the terminal update, while a second generator of
\* the same adapter has not been asked for an update and has no record
C30_Witness ==
  /\ call.op = "get_status"
  /\ call.res.status = "running" /\ call.res.progress = 0
  /\ Finished(call.inst, call.arg.id) # {}
  /\ \E h \in 1..Len(streams) :
       /\ streams[h].inst = call.inst /\ streams[h].pc = 0
       /\ Cardinality(DOMAIN stores[call.inst].workflows) = 1

---------------------------------------------------------------------------
(* Concurrent callers *)

\* the run ids of the execute calls that have not stored their record yet
InFlight == {frames[c].workflow_id : c \in {d \in Callers : frames[d].op = "execute"}}

\* the keys of self.workflows, of any instance, that a step adds or changes
Touched ==
  {k \in Instances \X RunIds :
     \/ /\ k[2] \in DOMAIN stores'[k[1]].workflows
        /\ k[2] \notin DOMAIN stores[k[1]].workflows
     \/ /\ k[2] \in DOMAIN stores'[k[1]].workflows
        /\ k[2] \in DOMAIN stores[k[1]].workflows
        /\ stores'[k[1]].workflows[k[2]] # stores[k[1]].workflows[k[2]]}

\* C24: under every interleaving of the reads and writes of execute,
\* get_status and stop by concurrent callers, a step changes at most one key
\* and removes none; the execute calls in flight hold different ids, none of
\* them stored yet, and the records of the instances are exactly the ids of
\* the execute calls that have returned, each stored by one instance; the
\* store of execute adds one record and changes no other; the write of stop
\* changes only the status of its own id; get_status returns "not_found"
\* for an id without a record, or else progress 0 and a status the record
\* has had: "running", or "stopped" when the record is stopped
C24_ConcurrentCalls ==
  [][ /\ Cardinality(Touched) <= 1
      /\ \A i \in Instances :
           Live(i) => DOMAIN stores[i].workflows \subseteq DOMAIN stores'[i].workflows
      /\ \A c \in Callers : \A d \in Callers \ {c} :
           (frames[c].op = "execute" /\ frames[d].op = "execute") =>
              frames[c].workflow_id # frames[d].workflow_id
      /\ \A i \in Instances : Live(i) =>
           /\ DOMAIN stores[i].workflows \cap InFlight = {}
           /\ \A j \in Instances \ {i} : Live(j) =>
                DOMAIN stores[i].workflows \cap DOMAIN stores[j].workflows = {}
      /\ UNION {DOMAIN stores[i].workflows : i \in {j \in Instances : Live(j)}}
           = issued \ InFlight
      /\ \A c \in Callers :
           (frames[c].op = "execute" /\ frames'[c] = Idle) =>
              LET i == frames[c].inst
                  id == frames[c].workflow_id
              IN /\ Touched = {<<i, id>>}
                 /\ Cardinality(DOMAIN stores'[i].workflows)
                      = Cardinality(DOMAIN stores[i].workflows) + 1
                 /\ stores'[i].workflows[id].status = "running"
                 /\ call'.res.workflow_id = id
      /\ \A c \in Callers :
           (frames[c].op = "stop" /\ frames'[c] = Idle) =>
              /\ Touched \subseteq {<<frames[c].inst, frames[c].workflow_id>>}
              /\ stores'[frames[c].inst].workflows[frames[c].workflow_id].status = "stopped"
              /\ call'.res.value = TRUE
      /\ (call'.op \in {"get_status", "stop"} /\ call' # call) =>
           Touched \subseteq {<<call'.inst, call'.arg.id>>}
      /\ (call'.op = "get_status" /\ call' # call) =>
           LET i == call'.inst
               id == call'.arg.id
           IN IF call'.res.status = "not_found"
              THEN id \notin DOMAIN stores[i].workflows
              ELSE /\ id \in DOMAIN stores[i].workflows
                   /\ call'.res.progress = 0
                   /\ call'.res.status \in {"running", "stopped"}
                   /\ call'.res.status = "stopped" =>
                        stores[i].workflows[id].status = "stopped"
    ]_vars

\* get_status has returned "running" for a run that another caller stopped
\* between its two reads, while the instance holds two records
C24_Witness ==
  /\ call.op = "get_status" /\ call.res.status = "running"
  /\ stores[call.inst].workflows[call.arg.id].status = "stopped"
  /\ Cardinality(DOMAIN stores[call.inst].workflows) = 2

---------------------------------------------------------------------------
(* The states of a run record *)

\* the statuses the stub adapters store
StoredStatuses == {"running", "stopped"}

\* C25: every stored record has status "running" or "stopped" and progress
\* 0, before and after every step of execute, stream, get_status and stop;
\* a record stays stored; its status changes only from "running" to
\* "stopped" and only in a stop of its id on its instance; a stopped record
\* stays stopped
C25_RunStateMachine ==
  [][ /\ \A i \in Instances : \A id \in DOMAIN stores[i].workflows :
           /\ stores[i].workflows[id].status \in StoredStatuses
           /\ stores[i].workflows[id].progress = 0
           /\ KnownAfter(i, id)
           /\ stores'[i].workflows[id].progress = 0
           /\ stores'[i].workflows[id].config = stores[i].workflows[id].config
           /\ stores[i].workflows[id].status = "stopped" =>
                stores'[i].workflows[id].status = "stopped"
           /\ stores'[i].workflows[id].status # stores[i].workflows[id].status =>
                /\ stores[i].workflows[id].status = "running"
                /\ stores'[i].workflows[id].status = "stopped"
                /\ call'.op = "stop" /\ call'.inst = i /\ call'.arg.id = id
      /\ \A i \in Instances : \A id \in DOMAIN stores'[i].workflows :
           /\ stores'[i].workflows[id].status \in StoredStatuses
           /\ id \notin DOMAIN stores[i].workflows =>
                stores'[i].workflows[id].status = "running"
    ]_vars

\* execute has returned on an instance that holds a stopped record whose
\* generator has yielded ("completed", 100)
C25_Witness ==
  /\ call.op = "execute"
  /\ \E id \in DOMAIN stores[call.inst].workflows :
       /\ id # call.res.workflow_id
       /\ stores[call.inst].workflows[id].status = "stopped"
       /\ Finished(call.inst, id) # {}

---------------------------------------------------------------------------
(* Instances made by the factory *)

\* C26: a get_orchestrator call that returns hands out an object no call
\* returned before, of the registered class, with an empty self.workflows,
\* and changes neither another adapter nor the registry; a run id held by
\* one adapter is "not_found" for get_status on another adapter; the
\* registry maps names to classes only
C26_FreshInstance ==
  [][ /\ (call'.op = "get_orchestrator" /\ call'.res.kind = "ret" /\ call' # call) =>
           LET i == call'.inst IN
           /\ ~Live(i)
           /\ stores'[i].cls = registry[Lower(call'.arg.s)]
           /\ DOMAIN stores'[i].workflows = {}
           /\ \A j \in Instances \ {i} : stores'[j] = stores[j]
           /\ registry' = registry
      /\ (call'.op = "get_status" /\ call' # call) =>
           \A j \in Instances \ {call'.inst} :
              (Live(j) /\ call'.arg.id \in DOMAIN stores[j].workflows) =>
                 call'.res.status = "not_found"
      /\ \A n \in DOMAIN registry : registry[n] \in Classes
      /\ \A n \in DOMAIN registry' : registry'[n] \in Classes
    ]_vars

\* two adapters of one class have been resolved, and get_status on the
\* second has returned "not_found" for a run id execute issued on the first
C26_Witness ==
  /\ call.op = "get_status" /\ call.inst = 2
  /\ call.res.status = "not_found"
  /\ stores[1].cls = stores[2].cls
  /\ call.arg.id \in DOMAIN stores[1].workflows
  /\ DOMAIN stores[2].workflows = {}

---------------------------------------------------------------------------
(* The workflow table of the HTTP layer *)

\* a start request as the tests send it: the body names a registered
\* framework
StartOfRegistered ==
  call'.op = "start_workflow" /\ call' # call /\ SelectedClass(call'.arg) # "none"

\* C23: a start request that names a registered framework is answered with
\* a workflow id, and the status query of that id is then answered 200 with
\* status "running", a value of WorkflowStatusResponse's Literal, and
\* progress 0
C23_StatusAfterStart ==
  [][StartOfRegistered =>
       /\ call'.res.status_code = 200
       /\ LET r == StatusResponse(workflows_db', call'.res.workflowId)
          IN /\ r.status_code = 200
             /\ r.status = "running" /\ r.status \in StatusLiteral
             /\ r.progress = 0
    ]_vars

\* C28: a start request that names a registered framework puts its id into
\* the table; every table entry holds an adapter whose store has the id;
\* stop_workflow of a table id stops the run on that adapter, so its record
\* and the table entry are both "stopped" afterwards, and stop_workflow of
\* an id not in the table answers 404 and changes neither
C28_SameInstance ==
  [][ /\ StartOfRegistered =>
           /\ call'.res.status_code = 200
           /\ call'.res.workflowId \in DOMAIN workflows_db'
           /\ workflows_db'[call'.res.workflowId].orchestrator = call'.inst
      /\ \A id \in DOMAIN workflows_db :
           LET i == workflows_db[id].orchestrator IN
           /\ Live(i) /\ id \in DOMAIN stores[i].workflows
           /\ id \in DOMAIN workflows_db'
           /\ workflows_db'[id].orchestrator = i
           /\ (call'.op = "stop_workflow" /\ call'.arg.id = id /\ call' # call) =>
                /\ call'.res.status_code = 200
                /\ call'.inst = i
                /\ stores'[i].workflows[id].status = "stopped"
                /\ workflows_db'[id].status = "stopped"
      /\ (call'.op = "stop_workflow" /\ call'.arg.id \notin DOMAIN workflows_db) =>
           /\ call'.res.status_code = 404
           /\ stores' = stores /\ workflows_db' = workflows_db
    ]_vars

---------------------------------------------------------------------------
(* Responses of the YAML endpoint *)

\* the request got as far as a constructed Workflow object
WorkflowConstructed(text, framework) ==
  /\ SafeLoad(text).kind = "ret"
  /\ SetFramework(SafeLoad(text).value, framework).kind = "ret"
  /\ WorkflowModel(SetFramework(SafeLoad(text).value, framework).value).kind = "ret"

\* C21: validate_yaml answers 200 for every text; valid=false comes with a
\* non-empty errors list and valid=true with none; and whenever the Workflow
\* object was constructed (the failure, if any, is the adapter's or an
\* unsupported framework) the response carries that workflow
C21_YamlResponse ==
  (call.op = "validate_yaml" /\ call.res # Pending) =>
    /\ call.res.status_code = 200
    /\ ~call.res.valid => (IsList(call.res.errors) /\ Len(call.res.errors.l) > 0)
    /\ call.res.valid => call.res.errors = NoneV
    /\ WorkflowConstructed(call.arg.text, call.arg.framework) =>
         /\ call.res.workflow # NoneV
         /\ call.res.workflow.d["name"] = call.arg.text.doc.d["name"]

====
